---- MODULE Spec2Model ----
(***************************************************************************)
(* Task Management API (hemangmitra/project): the persisted tables, the    *)
(* credential and token services, the access-control guards and the HTTP   *)
(* handlers, as a state machine.                                           *)
(*                                                                         *)
(* Time is the clock in seconds (the resolution of a JWT exp claim).  A    *)
(* handler body reads the clock once: the utcnow() calls of one handler    *)
(* body fall in the same second.                                           *)
(*                                                                         *)
(* Requests are served by worker processes that share the database, each   *)
(* request with its own Session (core/database.py get_db).  The atomic     *)
(* actions model a request that runs alone; the *_query / *_commit actions *)
(* model the same handlers cut at their database round trips, so that      *)
(* requests of two workers interleave.                                     *)
(***************************************************************************)
EXTENDS Integers, Sequences, FiniteSets, TLC

(* ------------------------------------------------------------------ *)
(* Bounds of the model                                                 *)
(* ------------------------------------------------------------------ *)
MaxTokens == 2
MaxAudit == 2
MaxTicks == 2
MaxTasks == 2

(* ------------------------------------------------------------------ *)
(* Program constants                                                   *)
(* ------------------------------------------------------------------ *)
jwt_access_token_expire_minutes == 15
jwt_refresh_token_expire_days == 7
RowLifetimeDays == 7
CookieMaxAge == 7 * 24 * 60 * 60
SecondsPerMinute == 60
SecondsPerDay == 86400

HTTP_200_OK == 200
HTTP_201_CREATED == 201
HTTP_400_BAD_REQUEST == 400
HTTP_401_UNAUTHORIZED == 401
HTTP_403_FORBIDDEN == 403
HTTP_404_NOT_FOUND == 404

UserRole == {"admin", "user"}
TaskStatus == {"todo", "in_progress", "done"}
TaskPriority == {"low", "medium", "high", "urgent"}

\* Python's None where an integer is expected (0 is a value of its own).
None == -1
\* None where a token string is expected.
NoToken == [sub |-> 0, exp |-> 0, type |-> "none", sig |-> FALSE]
\* None where a dict is expected.
NoValues == [none |-> TRUE]
\* An empty request or response body.
Empty == [empty |-> TRUE]

(* ------------------------------------------------------------------ *)
(* core/security.py: PasswordService                                   *)
(* ------------------------------------------------------------------ *)
\* bcrypt: an opaque hash that only verify can compare a candidate with.
hash_password(password) == [scheme |-> "bcrypt", of |-> password]

verify_password(plain_password, hashed_password) ==
    hashed_password.of = plain_password

(* ------------------------------------------------------------------ *)
(* core/security.py: TokenService                                      *)
(* A token is its claim set and whether its signature is the one the   *)
(* configured secret gives: jwt.encode is a function of the claims, so *)
(* equal claims give the same token string.                            *)
(* ------------------------------------------------------------------ *)
jwt_encode(claims) ==
    [sub |-> claims.sub, exp |-> claims.exp, type |-> claims.type, sig |-> TRUE]

\* jwt.decode: the signature, then the exp claim (expired when exp < now).
jwt_decode(token, t) ==
    IF ~token.sig THEN [ok |-> FALSE, payload |-> Empty]
    ELSE IF token.exp < t THEN [ok |-> FALSE, payload |-> Empty]
    ELSE [ok |-> TRUE,
          payload |-> [sub |-> token.sub, exp |-> token.exp, type |-> token.type]]

create_access_token(sub, t) ==
    jwt_encode([sub |-> sub,
                exp |-> t + jwt_access_token_expire_minutes * SecondsPerMinute,
                type |-> "access"])

create_refresh_token(sub, t, days) ==
    jwt_encode([sub |-> sub, exp |-> t + days * SecondsPerDay, type |-> "refresh"])

\* The 401 that verify_token raises, with its detail.
Unverified(detail) == [ok |-> FALSE, payload |-> Empty, detail |-> detail]

Verified(payload) == [ok |-> TRUE, payload |-> payload, detail |-> ""]

verify_token_wrongtype(token, token_type, t) ==
    LET d == jwt_decode(token, t) IN
    IF ~d.ok THEN Unverified("Could not validate credentials")
    ELSE Verified(d.payload)

\* ok = FALSE is the 401 of either branch: a JWTError of jwt.decode, or a
\* type claim that is not the expected one.
verify_token(token, token_type, t) ==
    LET d == jwt_decode(token, t) IN
    IF ~d.ok THEN Unverified("Could not validate credentials")
    ELSE IF d.payload.type # token_type THEN Unverified("Invalid token type")
    ELSE Verified(d.payload)

(* ------------------------------------------------------------------ *)
(* State                                                               *)
(* ------------------------------------------------------------------ *)
VARIABLES
    users,          \* table users: row i has id i (rows are never deleted)
    refresh_tokens, \* table refresh_tokens, in insertion order
    tasks,          \* table tasks: row i has id i
    audit_logs,     \* table audit_logs, in insertion order
    now,            \* the clock, in seconds
    settings,       \* core/config.py Settings
    resp,           \* the last response sent, with the request it answers
    inflight        \* per worker: the request it is in the middle of

vars == <<users, refresh_tokens, tasks, audit_logs, now, settings, resp, inflight>>
db == <<users, refresh_tokens, tasks, audit_logs>>

Procs == {1, 2}
Idle == [pc |-> "idle"]

(* ------------------------------------------------------------------ *)
(* models/*.py: rows, and the constraints the storage layer enforces   *)
(* at commit (a violation raises IntegrityError; nothing is written).  *)
(* ------------------------------------------------------------------ *)
User(email, username, hashed_password, role, is_active) ==
    [email |-> email, username |-> username, hashed_password |-> hashed_password,
     role |-> role, is_active |-> is_active]

RefreshToken(token, user_id, expires_at, t) ==
    [token |-> token, user_id |-> user_id, expires_at |-> expires_at,
     is_revoked |-> FALSE, created_at |-> t, replaced_by_token |-> NoToken]

AuditLog(user_id, task_id, action, old_values, new_values, t) ==
    [user_id |-> user_id, task_id |-> task_id, action |-> action,
     old_values |-> old_values, new_values |-> new_values, timestamp |-> t]

UserIds(us) == 1..Len(us)

users_unique_nocheck(us) == TRUE

\* users.email and users.username are unique=True.
users_unique(us) ==
    \A i, j \in UserIds(us) :
        i # j => us[i].email # us[j].email /\ us[i].username # us[j].username

\* refresh_tokens.token is unique=True.
refresh_tokens_unique(rows) ==
    \A i, j \in 1..Len(rows) : i # j => rows[i].token # rows[j].token

\* Query.first() over the ids a filter matches: the first row, 0 when there
\* is none.
First(matching) ==
    IF matching = {} THEN 0
    ELSE CHOOSE i \in matching : \A j \in matching : i <= j

(* ------------------------------------------------------------------ *)
(* utils/audit.py: AuditService.log_action (add, commit)               *)
(* ------------------------------------------------------------------ *)
log_action_rewrite(logs, user_id, action, task_id, old_values, new_values, t) ==
    <<AuditLog(user_id, task_id, action, old_values, new_values, t)>>

log_action_twice(logs, user_id, action, task_id, old_values, new_values, t) ==
    Append(Append(logs, AuditLog(user_id, task_id, action, old_values, new_values, t)),
           AuditLog(user_id, task_id, action, old_values, new_values, t))

log_action(logs, user_id, action, task_id, old_values, new_values, t) ==
    Append(logs, AuditLog(user_id, task_id, action, old_values, new_values, t))

CanLog == Len(audit_logs) < MaxAudit

\* Room for one row more.
CanLogRevocation == Len(audit_logs) <= MaxAudit

Response(op, status, detail, req, out) ==
    [op |-> op, status |-> status, detail |-> detail, req |-> req, out |-> out]

(* ------------------------------------------------------------------ *)
(* Init: the schema exists, the settings hold their defaults, and the  *)
(* users table holds the accounts an operator seeded: register creates *)
(* only active accounts of role user.                                  *)
(* ------------------------------------------------------------------ *)
SeedUsers ==
    << User("root@x", "root", hash_password("rootpw"), "admin", TRUE),
       User("bob@x", "bob", hash_password("pw2"), "user", TRUE),
       User("carol@x", "carol", hash_password("pw1"), "user", FALSE) >>

DefaultSettings ==
    [jwt_refresh_token_expire_days |-> jwt_refresh_token_expire_days]

Init ==
    /\ users = SeedUsers
    /\ refresh_tokens = << >>
    /\ tasks = << >>
    /\ audit_logs = << >>
    /\ now = 0
    /\ settings = DefaultSettings
    /\ resp = Response("none", 0, "", Empty, Empty)
    /\ inflight = [p \in Procs |-> Idle]

(* ------------------------------------------------------------------ *)
(* The clock                                                           *)
(* ------------------------------------------------------------------ *)
\* The clock moves on by a second, or by the row lifetime: after that jump
\* every token issued before it has expired, and a second jump shows nothing new.
TickSteps == {1, RowLifetimeDays * SecondsPerDay}
Seconds(t) == t % (RowLifetimeDays * SecondsPerDay)

Tick(d) ==
    /\ IF d = 1 THEN Seconds(now) < MaxTicks
                ELSE now < RowLifetimeDays * SecondsPerDay
    /\ now' = now + d
    /\ UNCHANGED <<db, settings, resp, inflight>>

(* ------------------------------------------------------------------ *)
(* middleware/auth.py: the access-control guards.  Each returns        *)
(* [ok, status, detail, user_id]; ok = FALSE is the HTTPException.     *)
(* ------------------------------------------------------------------ *)
Denied(status, detail) ==
    [ok |-> FALSE, status |-> status, detail |-> detail, user_id |-> None]

Granted(user_id) ==
    [ok |-> TRUE, status |-> HTTP_200_OK, detail |-> "", user_id |-> user_id]

get_current_user_anyactive(credentials, us, t) ==
    LET v == verify_token(credentials, "access", t) IN
    IF ~v.ok THEN Denied(HTTP_401_UNAUTHORIZED, v.detail)
    ELSE LET user_id == v.payload.sub IN
         IF user_id \notin UserIds(us)
         THEN Denied(HTTP_401_UNAUTHORIZED, "User not found or inactive")
         ELSE Granted(user_id)

get_current_user(credentials, us, t) ==
    LET v == verify_token(credentials, "access", t) IN
    IF ~v.ok THEN Denied(HTTP_401_UNAUTHORIZED, v.detail)
    ELSE LET user_id == v.payload.sub IN
         IF user_id \notin UserIds(us) \/ ~us[user_id].is_active
         THEN Denied(HTTP_401_UNAUTHORIZED, "User not found or inactive")
         ELSE Granted(user_id)

get_current_active_user(credentials, us, t) ==
    LET c == get_current_user(credentials, us, t) IN
    IF ~c.ok THEN c
    ELSE IF ~us[c.user_id].is_active
         THEN Denied(HTTP_400_BAD_REQUEST, "Inactive user")
         ELSE c

get_admin_user_anyrole(credentials, us, t) ==
    get_current_active_user(credentials, us, t)

get_admin_user(credentials, us, t) ==
    LET c == get_current_active_user(credentials, us, t) IN
    IF ~c.ok THEN c
    ELSE IF us[c.user_id].role # "admin"
         THEN Denied(HTTP_403_FORBIDDEN, "Not enough permissions")
         ELSE c

(* ------------------------------------------------------------------ *)
(* What clients send                                                   *)
(* ------------------------------------------------------------------ *)
\* The callers of the administrator's bulk revoke: root, and bob (no admin).
AdminCallers == {create_access_token(1, now), create_access_token(2, now)}

\* A well-signed refresh token that no row holds (issued before the table
\* was emptied).
StrayToken == create_refresh_token(1, 1, RowLifetimeDays)

\* Refresh-token request bodies: every stored token, its forgery, the access
\* token issued with it, and the stray one.
RefreshInputs ==
    {refresh_tokens[i].token : i \in 1..Len(refresh_tokens)}
    \cup {[refresh_tokens[i].token EXCEPT !.sig = FALSE] : i \in 1..Len(refresh_tokens)}
    \cup {create_access_token(refresh_tokens[i].user_id, refresh_tokens[i].created_at) :
            i \in 1..Len(refresh_tokens)}
    \cup {StrayToken}

\* Logout and revoke-token bodies: they only look the string up.
StoredInputs ==
    {refresh_tokens[i].token : i \in 1..Len(refresh_tokens)} \cup {StrayToken}

\* The user whose tokens an administrator revokes: bob, or an id no user has.
RevokeTargets == {2, Len(users) + 1}

RegisterInputs ==
    [email : {"a@x", "bob@x"}, username : {"ann", "bob"}, password : {"pw1"}]

LoginInputs ==
    {[email |-> "bob@x", password |-> "pw2"],
     [email |-> "bob@x", password |-> "pw1"],
     [email |-> "carol@x", password |-> "pw1"],
     [email |-> "a@x", password |-> "pw1"]}

(* ------------------------------------------------------------------ *)
(* core/database.py: get_db.  The handler raised: the finally clause   *)
(* closes the session without a commit, so the attributes the handler  *)
(* had set on its objects (staged) never reach the table (committed).  *)
(* ------------------------------------------------------------------ *)
db_close_commits(committed, staged) == staged

db_close(committed, staged) == committed

(* ------------------------------------------------------------------ *)
(* utils/exceptions.py: integrity_error_handler.  The commit raised,   *)
(* the session is closed without a commit, nothing is written.         *)
(* ------------------------------------------------------------------ *)
IntegrityError(op, req) ==
    Response(op, HTTP_400_BAD_REQUEST, "Database constraint violation", req, Empty)

(* ------------------------------------------------------------------ *)
(* api/auth.py: POST /api/auth/register                                *)
(* ------------------------------------------------------------------ *)
register_existing_emailonly(us, user_data) ==
    \E i \in UserIds(us) : us[i].email = user_data.email

\* The query of lines 23-25: a user with this email or this username.
register_existing(us, user_data) ==
    \E i \in UserIds(us) :
        us[i].email = user_data.email \/ us[i].username = user_data.username

register_row_admin(user_data) ==
    User(user_data.email, user_data.username,
         hash_password(user_data.password), "admin", TRUE)

register_row(user_data) ==
    User(user_data.email, user_data.username,
         hash_password(user_data.password), "user", TRUE)

(* ------------------------------------------------------------------ *)
(* api/auth.py: POST /api/auth/login                                   *)
(* ------------------------------------------------------------------ *)
TokenPair(access_token, refresh_token_value) ==
    [access_token |-> access_token, token_type |-> "bearer",
     cookie |-> refresh_token_value, max_age |-> CookieMaxAge]

login_user(us, user_data) == First({i \in UserIds(us) : us[i].email = user_data.email})

login_denied_noactive(us, user_data) ==
    LET user == login_user(us, user_data) IN
    IF user = 0 \/ ~verify_password(user_data.password, us[user].hashed_password)
    THEN "Incorrect email or password"
    ELSE ""

\* Lines 64-76: the detail of the 401, "" when the credentials pass.
login_denied(us, user_data) ==
    LET user == login_user(us, user_data) IN
    IF user = 0 \/ ~verify_password(user_data.password, us[user].hashed_password)
    THEN "Incorrect email or password"
    ELSE IF ~us[user].is_active THEN "Account is inactive"
    ELSE ""

row_expires_at_hours(t, days) == t + RowLifetimeDays * 60 * SecondsPerMinute

\* expires_at of the stored row: utcnow() + timedelta(days=7).
row_expires_at(t, days) == t + RowLifetimeDays * SecondsPerDay

login(user_data) ==
    LET denied == login_denied(users, user_data)
        user == login_user(users, user_data)
        access_token == create_access_token(user, now)
        refresh_token_value ==
            create_refresh_token(user, now, settings.jwt_refresh_token_expire_days)
        added == Append(refresh_tokens,
                    RefreshToken(refresh_token_value, user,
                        row_expires_at(now, settings.jwt_refresh_token_expire_days), now))
    IN
    IF denied # ""
    THEN /\ resp' = Response("login", HTTP_401_UNAUTHORIZED, denied, Empty, Empty)
         /\ UNCHANGED <<db, now, settings, inflight>>
    ELSE IF ~refresh_tokens_unique(added)
    THEN /\ resp' = IntegrityError("login", Empty)
         /\ UNCHANGED <<db, now, settings, inflight>>
    ELSE /\ Len(refresh_tokens) < MaxTokens
         /\ CanLog
         /\ refresh_tokens' = added
         /\ audit_logs' = log_action(audit_logs, user, "USER_LOGIN", None,
                                     NoValues, NoValues, now)
         /\ resp' = Response("login", HTTP_200_OK, "", Empty,
                             TokenPair(access_token, refresh_token_value))
         /\ UNCHANGED <<users, tasks, now, settings, inflight>>

(* ------------------------------------------------------------------ *)
(* api/auth.py: POST /api/auth/refresh                                 *)
(* ------------------------------------------------------------------ *)
refresh_row_match_norevoked(row, token, user_id, t) ==
    /\ row.token = token
    /\ row.user_id = user_id
    /\ row.expires_at > t

refresh_row_match_noexpiry(row, token, user_id, t) ==
    /\ row.token = token
    /\ row.user_id = user_id
    /\ row.is_revoked = FALSE

\* The filter of lines 129-134.
refresh_row_match(row, token, user_id, t) ==
    /\ row.token = token
    /\ row.user_id = user_id
    /\ row.is_revoked = FALSE
    /\ row.expires_at > t

\* Lines 119-140: the id of the row the presented token may consume, 0 for
\* the 401 of either check.
refresh_lookup(rows, token, t) ==
    LET v == verify_token(token, "refresh", t) IN
    IF ~v.ok THEN [row |-> 0, user_id |-> 0, detail |-> "Invalid refresh token"]
    ELSE LET user_id == v.payload.sub
             row == First({i \in 1..Len(rows) :
                              refresh_row_match(rows[i], token, user_id, t)})
         IN [row |-> row, user_id |-> user_id,
             detail |-> IF row = 0 THEN "Invalid or expired refresh token" ELSE ""]

rotate_nosuccessor(rows, row, new_refresh_token, user_id, expires_at, t) ==
    Append([rows EXCEPT ![row].is_revoked = TRUE],
           RefreshToken(new_refresh_token, user_id, expires_at, t))

rotate_keepsactive(rows, row, new_refresh_token, user_id, expires_at, t) ==
    Append([rows EXCEPT ![row].replaced_by_token = new_refresh_token],
           RefreshToken(new_refresh_token, user_id, expires_at, t))

\* Lines 146-158 as the commit writes them: the UPDATE of the consumed row
\* and the INSERT of the new one.
rotate(rows, row, new_refresh_token, user_id, expires_at, t) ==
    Append([rows EXCEPT ![row].is_revoked = TRUE,
                        ![row].replaced_by_token = new_refresh_token],
           RefreshToken(new_refresh_token, user_id, expires_at, t))

refresh_token(token) ==
    LET req == [refresh_token |-> token]
        found == refresh_lookup(refresh_tokens, token, now)
        new_access_token == create_access_token(found.user_id, now)
        new_refresh_token ==
            create_refresh_token(found.user_id, now, settings.jwt_refresh_token_expire_days)
        rotated == rotate(refresh_tokens, found.row, new_refresh_token, found.user_id,
                          row_expires_at(now, settings.jwt_refresh_token_expire_days), now)
    IN
    IF found.row = 0
    THEN /\ resp' = Response("refresh", HTTP_401_UNAUTHORIZED, found.detail, req, Empty)
         /\ UNCHANGED <<db, now, settings, inflight>>
    ELSE IF ~refresh_tokens_unique(rotated)
    THEN /\ resp' = IntegrityError("refresh", req)
         /\ UNCHANGED <<db, now, settings, inflight>>
    ELSE /\ Len(refresh_tokens) < MaxTokens
         /\ refresh_tokens' = rotated
         /\ resp' = Response("refresh", HTTP_200_OK, "", req,
                             TokenPair(new_access_token, new_refresh_token))
         /\ UNCHANGED <<users, tasks, audit_logs, now, settings, inflight>>

(* ------------------------------------------------------------------ *)
(* api/auth.py: POST /api/auth/logout, POST /api/auth/revoke-token     *)
(* ------------------------------------------------------------------ *)
token_row(rows, token) == First({i \in 1..Len(rows) : rows[i].token = token})

revoke_row_toggle(rows, row) ==
    [rows EXCEPT ![row].is_revoked = ~rows[row].is_revoked]

revoke_row(rows, row) == [rows EXCEPT ![row].is_revoked = TRUE]

logout(token) ==
    LET row == token_row(refresh_tokens, token) IN
    /\ refresh_tokens' = IF row # 0 THEN revoke_row(refresh_tokens, row)
                         ELSE refresh_tokens
    /\ resp' = Response("logout", HTTP_200_OK, "Successfully logged out",
                        [refresh_token |-> token], [cookie_deleted |-> TRUE])
    /\ UNCHANGED <<users, tasks, audit_logs, now, settings, inflight>>

revoke_token(token) ==
    LET row == token_row(refresh_tokens, token) IN
    IF row # 0
    THEN /\ refresh_tokens' = revoke_row(refresh_tokens, row)
         /\ resp' = Response("revoke_token", HTTP_200_OK, "Token revoked successfully",
                             [refresh_token |-> token], Empty)
         /\ UNCHANGED <<users, tasks, audit_logs, now, settings, inflight>>
    ELSE /\ resp' = Response("revoke_token", HTTP_404_NOT_FOUND, "Token not found",
                             [refresh_token |-> token], Empty)
         /\ UNCHANGED <<db, now, settings, inflight>>

(* ------------------------------------------------------------------ *)
(* api/users.py: DELETE /api/users/{user_id}/refresh-tokens            *)
(* ------------------------------------------------------------------ *)
\* Lines 144-152: every non-revoked row of the user is set revoked.
revoke_all_everyone(rows, user_id) ==
    [i \in 1..Len(rows) |-> [rows[i] EXCEPT !.is_revoked = TRUE]]

revoke_all(rows, user_id) ==
    [i \in 1..Len(rows) |->
        IF rows[i].user_id = user_id /\ rows[i].is_revoked = FALSE
        THEN [rows[i] EXCEPT !.is_revoked = TRUE]
        ELSE rows[i]]

active_tokens(rows, user_id) ==
    {i \in 1..Len(rows) : rows[i].user_id = user_id /\ rows[i].is_revoked = FALSE}

\* The handler, whatever room the bounded audit table has.
revoke_user_tokens_request(credentials, user_id) ==
    LET admin_user == get_admin_user(credentials, users, now)
        req == [user_id |-> user_id]
    IN
    IF ~admin_user.ok
    THEN /\ resp' = Response("revoke_user_tokens", admin_user.status, admin_user.detail,
                             req, Empty)
         /\ UNCHANGED <<db, now, settings, inflight>>
    ELSE IF user_id \notin UserIds(users)
    THEN /\ resp' = Response("revoke_user_tokens", HTTP_404_NOT_FOUND, "User not found",
                             req, Empty)
         /\ UNCHANGED <<db, now, settings, inflight>>
    ELSE /\ refresh_tokens' = revoke_all(refresh_tokens, user_id)
         /\ audit_logs' = log_action(audit_logs, admin_user.user_id, "USER_TOKENS_REVOKED",
                              None, NoValues,
                              [target_user_id |-> user_id,
                               tokens_revoked |->
                                   Cardinality(active_tokens(refresh_tokens, user_id))],
                              now)
         /\ resp' = Response("revoke_user_tokens", HTTP_200_OK, "", req,
                     [tokens_revoked |-> Cardinality(active_tokens(refresh_tokens, user_id))])
         /\ UNCHANGED <<users, tasks, now, settings, inflight>>

\* The calls that reach the audit log: an administrator's, naming a user.
revoke_user_tokens_logs(credentials, user_id) ==
    /\ get_admin_user(credentials, users, now).ok
    /\ user_id \in UserIds(users)

revoke_user_tokens(credentials, user_id) ==
    /\ revoke_user_tokens_logs(credentials, user_id) => CanLog
    /\ revoke_user_tokens_request(credentials, user_id)

\* The same handler with room for the row after the last one the other
\* handlers may write: two logins and the revocation that follows them fit.
revoke_user_tokens_last(credentials, user_id) ==
    /\ revoke_user_tokens_logs(credentials, user_id) => CanLogRevocation
    /\ revoke_user_tokens_request(credentials, user_id)

(* ------------------------------------------------------------------ *)
(* The authentication service, one request at a time                   *)
(* ------------------------------------------------------------------ *)
Next ==
    \/ \E d \in TickSteps : Tick(d)
    \/ \E user_data \in LoginInputs : login(user_data)
    \/ \E token \in RefreshInputs : refresh_token(token)
    \/ \E token \in StoredInputs : logout(token)
    \/ \E token \in StoredInputs : revoke_token(token)
    \/ \E credentials \in AdminCallers, user_id \in RevokeTargets :
            revoke_user_tokens(credentials, user_id)

Spec == Init /\ [][Next]_vars

(* ------------------------------------------------------------------ *)
(* Sessions of two users and their revocation by an administrator      *)
(* ------------------------------------------------------------------ *)
\* root and bob log in.
RevokeLoginInputs ==
    {[email |-> "root@x", password |-> "rootpw"],
     [email |-> "bob@x", password |-> "pw2"]}

\* The user whose tokens are revoked: root, bob, or an id no user has.
RevokeAllTargets == {1, 2, Len(users) + 1}

NextRevoke ==
    \/ \E user_data \in RevokeLoginInputs : login(user_data)
    \/ \E token \in StoredInputs : logout(token)
    \/ \E credentials \in AdminCallers, user_id \in RevokeAllTargets :
            revoke_user_tokens_last(credentials, user_id)

SpecRevoke == Init /\ [][NextRevoke]_vars

(* ------------------------------------------------------------------ *)
(* The same service under any configured refresh-token lifetime        *)
(* (JWT_REFRESH_TOKEN_EXPIRE_DAYS in the environment or .env)          *)
(* ------------------------------------------------------------------ *)
RefreshDaysChoices == {1, jwt_refresh_token_expire_days, 30}

InitCfg ==
    /\ users = SeedUsers
    /\ refresh_tokens = << >>
    /\ tasks = << >>
    /\ audit_logs = << >>
    /\ now = 0
    /\ settings \in [jwt_refresh_token_expire_days : RefreshDaysChoices]
    /\ resp = Response("none", 0, "", Empty, Empty)
    /\ inflight = [p \in Procs |-> Idle]

SpecCfg == InitCfg /\ [][Next]_vars

(* ------------------------------------------------------------------ *)
(* POST /api/auth/refresh by two workers.  The handler makes two       *)
(* database round trips: the SELECT of lines 129-134 and the commit of *)
(* line 158; another worker's commit can fall between them.            *)
(* ------------------------------------------------------------------ *)
update_matches_unrevoked(rows, row) ==
    row \in 1..Len(rows) /\ rows[row].is_revoked = FALSE

\* The UPDATE a commit emits for a changed object names the row by its
\* primary key alone.
update_matches(rows, row) == row \in 1..Len(rows)

Sent(op, token, status) ==
    [pc |-> "sent", op |-> op, token |-> token, status |-> status]

refresh_query(p, token) ==
    LET found == refresh_lookup(refresh_tokens, token, now) IN
    /\ inflight[p].pc \in {"idle", "sent"}
    /\ Len(refresh_tokens) < MaxTokens
    /\ IF found.row = 0
       THEN /\ resp' = Response("refresh", HTTP_401_UNAUTHORIZED, found.detail,
                                [refresh_token |-> token], Empty)
            /\ inflight' = [inflight EXCEPT
                               ![p] = Sent("refresh", token, HTTP_401_UNAUTHORIZED)]
       ELSE /\ inflight' = [inflight EXCEPT
                               ![p] = [pc |-> "refresh_commit", token |-> token,
                                       row |-> found.row, user_id |-> found.user_id]]
            /\ UNCHANGED resp
    /\ UNCHANGED <<db, now, settings>>

refresh_commit(p) ==
    /\ inflight[p].pc = "refresh_commit"
    /\ LET mine == inflight[p]
           req == [refresh_token |-> mine.token]
           new_access_token == create_access_token(mine.user_id, now)
           new_refresh_token ==
               create_refresh_token(mine.user_id, now,
                                    settings.jwt_refresh_token_expire_days)
           rotated == rotate(refresh_tokens, mine.row, new_refresh_token, mine.user_id,
                             row_expires_at(now, settings.jwt_refresh_token_expire_days),
                             now)
       IN
       IF ~update_matches(refresh_tokens, mine.row) \/ ~refresh_tokens_unique(rotated)
       THEN /\ resp' = IntegrityError("refresh", req)
            /\ inflight' = [inflight EXCEPT
                               ![p] = Sent("refresh", mine.token, HTTP_400_BAD_REQUEST)]
            /\ UNCHANGED <<db, now, settings>>
       ELSE /\ refresh_tokens' = rotated
            /\ resp' = Response("refresh", HTTP_200_OK, "", req,
                                TokenPair(new_access_token, new_refresh_token))
            /\ inflight' = [inflight EXCEPT
                               ![p] = Sent("refresh", mine.token, HTTP_200_OK)]
            /\ UNCHANGED <<users, tasks, audit_logs, now, settings>>

NextConc ==
    \/ \E d \in TickSteps : Tick(d)
    \/ \E user_data \in LoginInputs : login(user_data)
    \/ \E p \in Procs, token \in RefreshInputs : refresh_query(p, token)
    \/ \E p \in Procs : refresh_commit(p)

SpecConc == Init /\ [][NextConc]_vars

(* ------------------------------------------------------------------ *)
(* POST /api/auth/register and PUT /api/users/me by two workers.  Each  *)
(* handler reads (its SELECTs) and then commits; the audit row is      *)
(* committed right after the mutation, with no read in between.        *)
(* ------------------------------------------------------------------ *)
SentPlain(op, status) == [pc |-> "sent", op |-> op, status |-> status]

register_query(p, user_data) ==
    /\ inflight[p].pc \in {"idle", "sent"}
    /\ IF register_existing(users, user_data)
       THEN /\ resp' = Response("register", HTTP_400_BAD_REQUEST,
                                "Email or username already registered", user_data, Empty)
            /\ inflight' = [inflight EXCEPT
                               ![p] = SentPlain("register", HTTP_400_BAD_REQUEST)]
       ELSE /\ inflight' = [inflight EXCEPT
                               ![p] = [pc |-> "register_commit", user_data |-> user_data]]
            /\ UNCHANGED resp
    /\ UNCHANGED <<db, now, settings>>

register_commit(p) ==
    /\ inflight[p].pc = "register_commit"
    /\ LET user_data == inflight[p].user_data
           added == Append(users, register_row(user_data))
       IN
       IF ~users_unique(added)
       THEN /\ resp' = IntegrityError("register", user_data)
            /\ inflight' = [inflight EXCEPT
                               ![p] = SentPlain("register", HTTP_400_BAD_REQUEST)]
            /\ UNCHANGED <<db, now, settings>>
       ELSE /\ CanLog
            /\ users' = added
            /\ audit_logs' = log_action(audit_logs, Len(added), "USER_REGISTERED", None,
                                NoValues,
                                [username |-> user_data.username,
                                 email |-> user_data.email],
                                now)
            /\ resp' = Response("register", HTTP_201_CREATED, "", user_data,
                                [id |-> Len(added)])
            /\ inflight' = [inflight EXCEPT
                               ![p] = SentPlain("register", HTTP_201_CREATED)]
            /\ UNCHANGED <<refresh_tokens, tasks, now, settings>>

(* ------------------------------------------------------------------ *)
(* api/users.py: PUT /api/users/me                                     *)
(* ------------------------------------------------------------------ *)
\* A field of UserUpdate that the body leaves out.
NoneStr == ""

email_taken(us, email) == \E i \in UserIds(us) : us[i].email = email
username_taken(us, username) == \E i \in UserIds(us) : us[i].username = username

\* Lines 34-52: the detail of the 400, "" when neither check fails.
profile_conflict(us, me, user_update) ==
    IF user_update.email # NoneStr /\ user_update.email # us[me].email
       /\ email_taken(us, user_update.email)
    THEN "Email already registered"
    ELSE IF user_update.username # NoneStr /\ user_update.username # us[me].username
            /\ username_taken(us, user_update.username)
    THEN "Username already taken"
    ELSE ""

profile_changes_emailonly(us, me, user_update) ==
    [email |-> IF user_update.email # NoneStr /\ user_update.email # us[me].email
               THEN user_update.email ELSE NoneStr,
     username |-> NoneStr]

\* The attributes the handler set on current_user (setattr, lines 41 and 50).
profile_changes(us, me, user_update) ==
    [email |-> IF user_update.email # NoneStr /\ user_update.email # us[me].email
               THEN user_update.email ELSE NoneStr,
     username |-> IF user_update.username # NoneStr
                     /\ user_update.username # us[me].username
                  THEN user_update.username ELSE NoneStr]

\* The UPDATE of the commit: the changed columns of row me.
profile_apply(us, me, changes) ==
    [us EXCEPT ![me].email = IF changes.email # NoneStr THEN changes.email ELSE @,
               ![me].username = IF changes.username # NoneStr THEN changes.username
                                ELSE @]

update_profile_query(p, credentials, user_update) ==
    LET current_user == get_current_active_user(credentials, users, now)
        me == current_user.user_id
        conflict == profile_conflict(users, me, user_update)
    IN
    /\ inflight[p].pc \in {"idle", "sent"}
    /\ IF ~current_user.ok
       THEN /\ resp' = Response("update_profile", current_user.status,
                                current_user.detail, user_update, Empty)
            /\ inflight' = [inflight EXCEPT
                               ![p] = SentPlain("update_profile", current_user.status)]
       ELSE IF conflict # ""
       THEN /\ resp' = Response("update_profile", HTTP_400_BAD_REQUEST, conflict,
                                user_update, Empty)
            /\ inflight' = [inflight EXCEPT
                               ![p] = SentPlain("update_profile", HTTP_400_BAD_REQUEST)]
       ELSE /\ inflight' = [inflight EXCEPT
                               ![p] = [pc |-> "update_profile_commit", me |-> me,
                                       user_update |-> user_update,
                                       old_values |-> [email |-> users[me].email,
                                                       username |-> users[me].username],
                                       changes |-> profile_changes(users, me,
                                                                   user_update)]]
            /\ UNCHANGED resp
    \* Line 42 ran before the username's check raised.
    /\ users' = IF current_user.ok /\ conflict = "Username already taken"
                THEN db_close(users,
                              profile_apply(users, me,
                                  [profile_changes(users, me, user_update)
                                       EXCEPT !.username = NoneStr]))
                ELSE users
    /\ UNCHANGED <<refresh_tokens, tasks, audit_logs, now, settings>>

update_profile_commit(p) ==
    /\ inflight[p].pc = "update_profile_commit"
    /\ LET mine == inflight[p]
           updated == profile_apply(users, mine.me, mine.changes)
       IN
       IF ~users_unique(updated)
       THEN /\ resp' = IntegrityError("update_profile", mine.user_update)
            /\ inflight' = [inflight EXCEPT
                               ![p] = SentPlain("update_profile", HTTP_400_BAD_REQUEST)]
            /\ UNCHANGED <<db, now, settings>>
       ELSE /\ CanLog
            /\ users' = updated
            /\ audit_logs' = log_action(audit_logs, mine.me, "USER_PROFILE_UPDATED", None,
                                mine.old_values,
                                [email |-> updated[mine.me].email,
                                 username |-> updated[mine.me].username],
                                now)
            /\ resp' = Response("update_profile", HTTP_200_OK, "", mine.user_update,
                                [id |-> mine.me])
            /\ inflight' = [inflight EXCEPT
                               ![p] = SentPlain("update_profile", HTTP_200_OK)]
            /\ UNCHANGED <<refresh_tokens, tasks, now, settings>>

\* The bodies of PUT /api/users/me.
ProfileInputs ==
    {[email |-> "a@x", username |-> NoneStr],
     [email |-> NoneStr, username |-> "ann"],
     [email |-> "root@x", username |-> "bob"]}

\* Its callers: bob, the deactivated carol, and a forged token.
ProfileCallers ==
    {create_access_token(2, now), create_access_token(3, now),
     [create_access_token(2, now) EXCEPT !.sig = FALSE]}

NextReg ==
    \/ \E p \in Procs, user_data \in RegisterInputs : register_query(p, user_data)
    \/ \E p \in Procs : register_commit(p)
    \/ \E p \in Procs, credentials \in ProfileCallers, user_update \in ProfileInputs :
            update_profile_query(p, credentials, user_update)
    \/ \E p \in Procs : update_profile_commit(p)

SpecReg == Init /\ [][NextReg]_vars

(* ------------------------------------------------------------------ *)
(* PUT /api/users/me, one request at a time                            *)
(* ------------------------------------------------------------------ *)
\* Bodies that change nothing, one field, both fields, and that ask for
\* another user's email or username (after a new email, for the latter).
ProfileBodies ==
    ProfileInputs
    \cup {[email |-> "b2@x", username |-> "root"],
          [email |-> NoneStr, username |-> "carol"],
          [email |-> "bob@x", username |-> "bob"],
          [email |-> "b2@x", username |-> "bobby"]}

ProfileRegisterInputs == {[email |-> "a@x", username |-> "ann", password |-> "pw1"]}

\* One worker: bob's (and refused callers') profile updates and a visitor's
\* registration, each request finished before the next starts.
NextProfile ==
    \/ \E credentials \in ProfileCallers, user_update \in ProfileBodies :
            update_profile_query(1, credentials, user_update)
    \/ update_profile_commit(1)
    \/ \E user_data \in ProfileRegisterInputs : register_query(1, user_data)
    \/ register_commit(1)

SpecProfile == Init /\ [][NextProfile]_vars

(* ------------------------------------------------------------------ *)
(* models/task.py and api/tasks.py.  Text columns are sequences of     *)
(* characters, so that the search filter's substring test is computed. *)
(* ------------------------------------------------------------------ *)
\* A text field that is None (description, or a field the body leaves out).
NoText == << >>

Task(task_data, created_by, t) ==
    [title |-> task_data.title, description |-> task_data.description,
     status |-> task_data.status, priority |-> task_data.priority,
     due_date |-> task_data.due_date,
     assigned_user_id |-> task_data.assigned_user_id,
     created_by |-> created_by, created_at |-> t, updated_at |-> t,
     is_deleted |-> FALSE]

TaskIds(ts) == 1..Len(ts)

tasks_fk_off(ts, us) == TRUE

\* ForeignKey("users.id") on both user columns, checked by storage.
tasks_fk(ts, us) ==
    \A i \in TaskIds(ts) : /\ ts[i].assigned_user_id \in UserIds(us) \cup {None}
                           /\ ts[i].created_by \in UserIds(us)

\* Python's truth value of an Optional[int].
Truthy(x) == x # None /\ x # 0

TaskRequest(credentials, task_id, body) ==
    [credentials |-> credentials, task_id |-> task_id, body |-> body]

find_task_anydeleted(ts, task_id) ==
    IF task_id \in TaskIds(ts) THEN task_id ELSE None

\* db.query(Task).filter(Task.id == task_id, Task.is_deleted == False).first()
find_task(ts, task_id) ==
    IF task_id \in TaskIds(ts) /\ ~ts[task_id].is_deleted THEN task_id ELSE None

\* The row after the commit's UPDATE: onupdate=func.now() stamps updated_at
\* when, and only when, a column changed.
touch(old, new, t) ==
    IF new = old THEN old ELSE [new EXCEPT !.updated_at = t]

create_task(credentials, task_data) ==
    LET current_user == get_current_active_user(credentials, users, now)
        req == TaskRequest(credentials, None, task_data)
        added == Append(tasks, Task(task_data, current_user.user_id, now))
    IN
    IF ~current_user.ok
    THEN /\ resp' = Response("create_task", current_user.status, current_user.detail,
                             req, Empty)
         /\ UNCHANGED <<db, now, settings, inflight>>
    ELSE IF /\ Truthy(task_data.assigned_user_id)
            /\ task_data.assigned_user_id \notin UserIds(users)
    THEN /\ resp' = Response("create_task", HTTP_400_BAD_REQUEST,
                             "Assigned user not found", req, Empty)
         /\ UNCHANGED <<db, now, settings, inflight>>
    ELSE IF ~tasks_fk(added, users)
    THEN /\ resp' = IntegrityError("create_task", req)
         /\ UNCHANGED <<db, now, settings, inflight>>
    ELSE /\ Len(tasks) < MaxTasks
         /\ CanLog
         /\ tasks' = added
         /\ audit_logs' = log_action(audit_logs, current_user.user_id, "TASK_CREATED",
                             Len(added), NoValues,
                             [title |-> task_data.title, status |-> task_data.status,
                              priority |-> task_data.priority,
                              assigned_user_id |-> task_data.assigned_user_id],
                             now)
         /\ resp' = Response("create_task", HTTP_201_CREATED, "", req,
                             [id |-> Len(added)])
         /\ UNCHANGED <<users, refresh_tokens, now, settings, inflight>>

can_view_creatoronly(us, me, task) ==
    us[me].role = "admin" \/ task.created_by = me

\* Lines 149-151 negated: administrator, creator or assignee.
can_view(us, me, task) ==
    \/ us[me].role = "admin"
    \/ task.created_by = me
    \/ task.assigned_user_id = me

can_edit_assignee(us, me, task) ==
    \/ us[me].role = "admin"
    \/ task.created_by = me
    \/ task.assigned_user_id = me

can_edit_anyone(us, me, task) == TRUE

\* Lines 180-181 and 263-264 negated: administrator or creator.
can_edit(us, me, task) ==
    us[me].role = "admin" \/ task.created_by = me

get_task(credentials, task_id) ==
    LET current_user == get_current_active_user(credentials, users, now)
        me == current_user.user_id
        req == TaskRequest(credentials, task_id, Empty)
        task == find_task(tasks, task_id)
    IN
    /\ resp' = IF ~current_user.ok
               THEN Response("get_task", current_user.status, current_user.detail,
                             req, Empty)
               ELSE IF task = None
               THEN Response("get_task", HTTP_404_NOT_FOUND, "Task not found", req, Empty)
               ELSE IF ~can_view(users, me, tasks[task])
               THEN Response("get_task", HTTP_403_FORBIDDEN,
                             "Not enough permissions to view this task", req, Empty)
               ELSE Response("get_task", HTTP_200_OK, "", req,
                             [id |-> task, task |-> tasks[task]])
    /\ UNCHANGED <<db, now, settings, inflight>>

\* Lines 188-195 and 223-230: the audited columns of a task, the enums as
\* their value strings.
task_values_stale(task) ==
    [title |-> task.title, description |-> task.description,
     status |-> "todo", priority |-> task.priority,
     due_date |-> task.due_date, assigned_user_id |-> task.assigned_user_id]

task_values(task) ==
    [title |-> task.title, description |-> task.description,
     status |-> task.status, priority |-> task.priority,
     due_date |-> task.due_date, assigned_user_id |-> task.assigned_user_id]

apply_update_nodescription(task, task_update) ==
    [task EXCEPT
        !.title = IF task_update.title # NoText THEN task_update.title ELSE @,
        !.status = IF task_update.status # NoneStr THEN task_update.status ELSE @,
        !.priority = IF task_update.priority # NoneStr THEN task_update.priority ELSE @,
        !.due_date = IF task_update.due_date # None THEN task_update.due_date ELSE @,
        !.assigned_user_id = IF task_update.assigned_user_id # None
                             THEN task_update.assigned_user_id ELSE @]

\* Lines 198-217: the fields of the body that are not None replace the row's.
apply_update(task, task_update) ==
    [task EXCEPT
        !.title = IF task_update.title # NoText THEN task_update.title ELSE @,
        !.description = IF task_update.description # NoText
                        THEN task_update.description ELSE @,
        !.status = IF task_update.status # NoneStr THEN task_update.status ELSE @,
        !.priority = IF task_update.priority # NoneStr THEN task_update.priority ELSE @,
        !.due_date = IF task_update.due_date # None THEN task_update.due_date ELSE @,
        !.assigned_user_id = IF task_update.assigned_user_id # None
                             THEN task_update.assigned_user_id ELSE @]

update_task(credentials, task_id, task_update) ==
    LET current_user == get_current_active_user(credentials, users, now)
        me == current_user.user_id
        req == TaskRequest(credentials, task_id, task_update)
        task == find_task(tasks, task_id)
        updated == [tasks EXCEPT
                       ![task] = touch(@, apply_update(@, task_update), now)]
        \* Lines 198-207 ran before the assignee's lookup raised.
        staged == [tasks EXCEPT
                      ![task] = apply_update(@, [task_update EXCEPT
                                                    !.assigned_user_id = None])]
    IN
    IF ~current_user.ok
    THEN /\ resp' = Response("update_task", current_user.status, current_user.detail,
                             req, Empty)
         /\ UNCHANGED <<db, now, settings, inflight>>
    ELSE IF task = None
    THEN /\ resp' = Response("update_task", HTTP_404_NOT_FOUND, "Task not found",
                             req, Empty)
         /\ UNCHANGED <<db, now, settings, inflight>>
    ELSE IF ~can_edit(users, me, tasks[task])
    THEN /\ resp' = Response("update_task", HTTP_403_FORBIDDEN,
                             "Not enough permissions to update this task", req, Empty)
         /\ UNCHANGED <<db, now, settings, inflight>>
    ELSE IF /\ Truthy(task_update.assigned_user_id)
            /\ task_update.assigned_user_id \notin UserIds(users)
    THEN /\ resp' = Response("update_task", HTTP_400_BAD_REQUEST,
                             "Assigned user not found", req, Empty)
         /\ tasks' = db_close(tasks, staged)
         /\ UNCHANGED <<users, refresh_tokens, audit_logs, now, settings, inflight>>
    ELSE IF ~tasks_fk(updated, users)
    THEN /\ resp' = IntegrityError("update_task", req)
         /\ UNCHANGED <<db, now, settings, inflight>>
    ELSE /\ CanLog
         /\ tasks' = updated
         /\ audit_logs' = log_action(audit_logs, me, "TASK_UPDATED", task,
                             task_values(tasks[task]), task_values(updated[task]), now)
         /\ resp' = Response("update_task", HTTP_200_OK, "", req,
                             [id |-> task, task |-> updated[task]])
         /\ UNCHANGED <<users, refresh_tokens, now, settings, inflight>>

delete_task(credentials, task_id) ==
    LET current_user == get_current_active_user(credentials, users, now)
        me == current_user.user_id
        req == TaskRequest(credentials, task_id, Empty)
        task == find_task(tasks, task_id)
    IN
    IF ~current_user.ok
    THEN /\ resp' = Response("delete_task", current_user.status, current_user.detail,
                             req, Empty)
         /\ UNCHANGED <<db, now, settings, inflight>>
    ELSE IF task = None
    THEN /\ resp' = Response("delete_task", HTTP_404_NOT_FOUND, "Task not found",
                             req, Empty)
         /\ UNCHANGED <<db, now, settings, inflight>>
    ELSE IF ~can_edit(users, me, tasks[task])
    THEN /\ resp' = Response("delete_task", HTTP_403_FORBIDDEN,
                             "Not enough permissions to delete this task", req, Empty)
         /\ UNCHANGED <<db, now, settings, inflight>>
    ELSE /\ CanLog
         /\ tasks' = [tasks EXCEPT
                         ![task] = touch(@, [@ EXCEPT !.is_deleted = TRUE], now)]
         /\ audit_logs' = log_action(audit_logs, me, "TASK_DELETED", task,
                             [is_deleted |-> FALSE], [is_deleted |-> TRUE], now)
         /\ resp' = Response("delete_task", HTTP_200_OK, "", req,
                             [message |-> "Task deleted successfully"])
         /\ UNCHANGED <<users, refresh_tokens, now, settings, inflight>>

assign_task(credentials, task_id, assignment) ==
    LET admin_user == get_admin_user(credentials, users, now)
        req == TaskRequest(credentials, task_id, assignment)
        task == find_task(tasks, task_id)
        assigned == [tasks EXCEPT
                        ![task] = touch(@, [@ EXCEPT !.assigned_user_id =
                                                         assignment.user_id], now)]
    IN
    IF ~admin_user.ok
    THEN /\ resp' = Response("assign_task", admin_user.status, admin_user.detail,
                             req, Empty)
         /\ UNCHANGED <<db, now, settings, inflight>>
    ELSE IF task = None
    THEN /\ resp' = Response("assign_task", HTTP_404_NOT_FOUND, "Task not found",
                             req, Empty)
         /\ UNCHANGED <<db, now, settings, inflight>>
    ELSE IF assignment.user_id \notin UserIds(users)
    THEN /\ resp' = Response("assign_task", HTTP_400_BAD_REQUEST, "User not found",
                             req, Empty)
         /\ UNCHANGED <<db, now, settings, inflight>>
    ELSE /\ CanLog
         /\ tasks' = assigned
         /\ audit_logs' = log_action(audit_logs, admin_user.user_id, "TASK_ASSIGNED",
                             task,
                             [assigned_user_id |-> tasks[task].assigned_user_id],
                             [assigned_user_id |-> assignment.user_id], now)
         /\ resp' = Response("assign_task", HTTP_200_OK, "", req,
                             [message |-> "Task assigned to user",
                              user_id |-> assignment.user_id])
         /\ UNCHANGED <<users, refresh_tokens, now, settings, inflight>>

\* Lines 345-348: the rows of the answer; the query has no ORDER BY.
assigned_query(ts, user_id) ==
    {i \in TaskIds(ts) : ts[i].assigned_user_id = user_id /\ ~ts[i].is_deleted}

get_tasks_assigned_to_user(credentials, user_id) ==
    LET admin_user == get_admin_user(credentials, users, now)
        req == [credentials |-> credentials, user_id |-> user_id]
    IN
    /\ resp' = IF ~admin_user.ok
               THEN Response("get_tasks_assigned_to_user", admin_user.status,
                             admin_user.detail, req, Empty)
               ELSE IF user_id \notin UserIds(users)
               THEN Response("get_tasks_assigned_to_user", HTTP_404_NOT_FOUND,
                             "User not found", req, Empty)
               ELSE Response("get_tasks_assigned_to_user", HTTP_200_OK, "", req,
                             [user_id |-> user_id, username |-> users[user_id].username,
                              tasks |-> assigned_query(tasks, user_id)])
    /\ UNCHANGED <<db, now, settings, inflight>>

\* str.lower over the letters the model's texts use.
Lower(c) == CASE c = "F" -> "f" [] c = "X" -> "x" [] OTHER -> c

lower(text) == [i \in 1..Len(text) |-> Lower(text[i])]

\* column ILIKE '%search%': a NULL column matches nothing.
ilike(text, search) ==
    /\ text # NoText
    /\ \E i \in 0..(Len(text) - Len(search)) :
           lower(SubSeq(text, i + 1, i + Len(search))) = lower(search)

NoFilters ==
    [status |-> NoneStr, priority |-> NoneStr, assigned_user_id |-> None,
     created_by |-> None, due_date_from |-> None, due_date_to |-> None,
     search |-> NoText]

\* Lines 96-114: each filter applies when its parameter is truthy.
task_matches(task, filters) ==
    /\ filters.status # NoneStr => task.status = filters.status
    /\ filters.priority # NoneStr => task.priority = filters.priority
    /\ Truthy(filters.assigned_user_id)
          => task.assigned_user_id = filters.assigned_user_id
    /\ Truthy(filters.created_by) => task.created_by = filters.created_by
    /\ filters.due_date_from # None
          => task.due_date # None /\ task.due_date >= filters.due_date_from
    /\ filters.due_date_to # None
          => task.due_date # None /\ task.due_date <= filters.due_date_to
    /\ filters.search # NoText
          => ilike(task.title, filters.search) \/ ilike(task.description, filters.search)

\* Lines 84-93: not deleted, and for a non-administrator created by or
\* assigned to the caller.
list_visible_norole(ts, us, me) ==
    {i \in TaskIds(ts) : ~ts[i].is_deleted}

list_visible(ts, us, me) ==
    {i \in TaskIds(ts) :
        /\ ~ts[i].is_deleted
        /\ us[me].role # "admin" => ts[i].created_by = me \/ ts[i].assigned_user_id = me}

list_query(ts, us, me, filters) ==
    {i \in list_visible(ts, us, me) : task_matches(ts[i], filters)}

\* ORDER BY updated_at DESC: rows of equal updated_at come in any order.
Orderings(ts, S) ==
    {order \in [1..Cardinality(S) -> S] :
        /\ \A a, b \in 1..Cardinality(S) : a # b => order[a] # order[b]
        /\ \A a, b \in 1..Cardinality(S) :
              a < b => ts[order[a]].updated_at >= ts[order[b]].updated_at}

\* OFFSET offset LIMIT size
Page(order, offset, size) ==
    SubSeq(order, offset + 1,
           IF offset + size < Len(order) THEN offset + size ELSE Len(order))

list_tasks(credentials, page, size, filters) ==
    LET current_user == get_current_active_user(credentials, users, now)
        req == [credentials |-> credentials, page |-> page, size |-> size,
                filters |-> filters]
        offset == (page - 1) * size
    IN
    /\ IF ~current_user.ok
       THEN resp' = Response("list_tasks", current_user.status, current_user.detail,
                             req, Empty)
       ELSE LET rows == list_query(tasks, users, current_user.user_id, filters) IN
            \E order \in Orderings(tasks, rows) :
                resp' = Response("list_tasks", HTTP_200_OK, "", req,
                                 [tasks |-> Page(order, offset, size),
                                  total |-> Cardinality(rows),
                                  page |-> page, size |-> size])
    /\ UNCHANGED <<db, now, settings, inflight>>

\* The callers of the task endpoints: root (administrator), bob, and the
\* deactivated carol.
TaskCallers ==
    {create_access_token(1, now), create_access_token(2, now),
     create_access_token(3, now)}

NewTask ==
    [title |-> <<"F", "i", "x">>, description |-> NoText, status |-> "todo",
     priority |-> "medium", due_date |-> None, assigned_user_id |-> None]

\* The third names a user that does not exist.
TaskCreateInputs ==
    {NewTask, [NewTask EXCEPT !.assigned_user_id = 2],
     [NewTask EXCEPT !.assigned_user_id = Len(users) + 1]}

TaskIdInputs == 1..(Len(tasks) + 1)

NoUpdate ==
    [title |-> NoText, description |-> NoText, status |-> NoneStr,
     priority |-> NoneStr, due_date |-> None, assigned_user_id |-> None]

TaskUpdateInputs ==
    {[NoUpdate EXCEPT !.status = "done"],
     [NoUpdate EXCEPT !.assigned_user_id = Len(users) + 1]}

AssignInputs == [user_id : {2, Len(users) + 1}]

ListInputs ==
    {<<1, 10, NoFilters>>, <<2, 1, NoFilters>>,
     <<1, 10, [NoFilters EXCEPT !.search = <<"f", "I">>]>>}

NextTasks ==
    \/ \E credentials \in TaskCallers, task_data \in TaskCreateInputs :
            create_task(credentials, task_data)
    \/ \E credentials \in TaskCallers, task_id \in TaskIdInputs :
            get_task(credentials, task_id)
    \/ \E credentials \in TaskCallers, task_id \in TaskIdInputs,
          task_update \in TaskUpdateInputs :
            update_task(credentials, task_id, task_update)
    \/ \E credentials \in TaskCallers, task_id \in TaskIdInputs :
            delete_task(credentials, task_id)
    \/ \E credentials \in TaskCallers, task_id \in TaskIdInputs,
          assignment \in AssignInputs :
            assign_task(credentials, task_id, assignment)
    \/ \E credentials \in TaskCallers, user_id \in {2, Len(users) + 1} :
            get_tasks_assigned_to_user(credentials, user_id)
    \/ \E credentials \in TaskCallers, input \in ListInputs :
            list_tasks(credentials, input[1], input[2], input[3])

SpecTasks == Init /\ [][NextTasks]_vars

(* ------------------------------------------------------------------ *)
(* GET /api/tasks under filters that name other users: tasks of root   *)
(* and bob, some assigned to carol, listed by root and by bob.         *)
(* ------------------------------------------------------------------ *)
ListCreateInputs ==
    {NewTask, [NewTask EXCEPT !.assigned_user_id = 2],
     [NewTask EXCEPT !.assigned_user_id = 3]}

ListFilterInputs ==
    {NoFilters,
     [NoFilters EXCEPT !.created_by = 1],
     [NoFilters EXCEPT !.created_by = 2],
     [NoFilters EXCEPT !.assigned_user_id = 3],
     [NoFilters EXCEPT !.assigned_user_id = 3, !.created_by = 1],
     [NoFilters EXCEPT !.status = "done"]}

NextList ==
    \/ \E credentials \in TaskCallers, task_data \in ListCreateInputs :
            create_task(credentials, task_data)
    \/ \E credentials \in TaskCallers, task_id \in TaskIdInputs :
            delete_task(credentials, task_id)
    \/ \E credentials \in TaskCallers, filters \in ListFilterInputs :
            list_tasks(credentials, 1, 10, filters)

SpecList == Init /\ [][NextList]_vars

(* ------------------------------------------------------------------ *)
(* The logged operations cut where the code cuts them: the handler up  *)
(* to and including its own db.commit() is one step, the log_action    *)
(* call that follows (utils/audit.py: add, commit) and the return are  *)
(* the next.  A request that is refused never reaches a commit and is  *)
(* the one-step request of the handler's own action.                   *)
(* ------------------------------------------------------------------ *)
\* The worker committed the handler's mutation; log_action is still to run.
Logging(user_id, action, task_id, old_values, new_values, answer) ==
    [pc |-> "log_action", user_id |-> user_id, action |-> action,
     task_id |-> task_id, old_values |-> old_values, new_values |-> new_values,
     answer |-> answer]

Free(p) == inflight[p].pc \in {"idle", "sent"}

\* Room in the bounded audit table for the rows that are still to be written.
CanLogLater ==
    Len(audit_logs) + Cardinality({p \in Procs : inflight[p].pc = "log_action"})
        < MaxAudit

\* utils/audit.py lines 17-28, then the handler's return.
log_action_commit(p) ==
    /\ inflight[p].pc = "log_action"
    /\ audit_logs' = log_action(audit_logs, inflight[p].user_id, inflight[p].action,
                                inflight[p].task_id, inflight[p].old_values,
                                inflight[p].new_values, now)
    /\ resp' = inflight[p].answer
    /\ inflight' = [inflight EXCEPT
                       ![p] = SentPlain(inflight[p].answer.op,
                                        inflight[p].answer.status)]
    /\ UNCHANGED <<users, refresh_tokens, tasks, now, settings>>

register_accepted(user_data) ==
    /\ ~register_existing(users, user_data)
    /\ users_unique(Append(users, register_row(user_data)))

\* auth.py lines 23-43
register_then_log(p, user_data) ==
    /\ Free(p)
    /\ IF register_existing(users, user_data)
       THEN /\ resp' = Response("register", HTTP_400_BAD_REQUEST,
                                "Email or username already registered", user_data, Empty)
            /\ UNCHANGED <<db, now, settings, inflight>>
       ELSE IF ~register_accepted(user_data)
       THEN /\ resp' = IntegrityError("register", user_data)
            /\ UNCHANGED <<db, now, settings, inflight>>
       ELSE /\ CanLogLater
            /\ users' = Append(users, register_row(user_data))
            /\ inflight' = [inflight EXCEPT ![p] =
                   Logging(Len(users) + 1, "USER_REGISTERED", None, NoValues,
                           [username |-> user_data.username, email |-> user_data.email],
                           Response("register", HTTP_201_CREATED, "", user_data,
                                    [id |-> Len(users) + 1]))]
            /\ UNCHANGED <<refresh_tokens, tasks, audit_logs, now, settings, resp>>

login_accepted(user_data) ==
    /\ login_denied(users, user_data) = ""
    /\ LET user == login_user(users, user_data) IN
       refresh_tokens_unique(
           Append(refresh_tokens,
               RefreshToken(
                   create_refresh_token(user, now, settings.jwt_refresh_token_expire_days),
                   user, row_expires_at(now, settings.jwt_refresh_token_expire_days),
                   now)))

\* auth.py lines 64-99
login_then_log(p, user_data) ==
    /\ Free(p)
    /\ IF ~login_accepted(user_data)
       THEN login(user_data)
       ELSE LET user == login_user(users, user_data)
                refresh_token_value ==
                    create_refresh_token(user, now,
                                         settings.jwt_refresh_token_expire_days)
            IN
            /\ Len(refresh_tokens) < MaxTokens
            /\ CanLogLater
            /\ refresh_tokens' = Append(refresh_tokens,
                   RefreshToken(refresh_token_value, user,
                       row_expires_at(now, settings.jwt_refresh_token_expire_days), now))
            /\ inflight' = [inflight EXCEPT ![p] =
                   Logging(user, "USER_LOGIN", None, NoValues, NoValues,
                           Response("login", HTTP_200_OK, "", user_data,
                                    TokenPair(create_access_token(user, now),
                                              refresh_token_value)))]
            /\ UNCHANGED <<users, tasks, audit_logs, now, settings, resp>>

update_profile_accepted(credentials, user_update) ==
    LET current_user == get_current_active_user(credentials, users, now)
        me == current_user.user_id
    IN
    /\ current_user.ok
    /\ profile_conflict(users, me, user_update) = ""
    /\ users_unique(profile_apply(users, me, profile_changes(users, me, user_update)))

\* users.py lines 29-54
update_profile_then_log(p, credentials, user_update) ==
    LET current_user == get_current_active_user(credentials, users, now)
        me == current_user.user_id
        conflict == profile_conflict(users, me, user_update)
        updated == profile_apply(users, me, profile_changes(users, me, user_update))
        req == [credentials |-> credentials, body |-> user_update]
    IN
    /\ Free(p)
    /\ IF ~current_user.ok
       THEN /\ resp' = Response("update_profile", current_user.status,
                                current_user.detail, req, Empty)
            /\ UNCHANGED <<db, now, settings, inflight>>
       ELSE IF conflict # ""
       THEN /\ resp' = Response("update_profile", HTTP_400_BAD_REQUEST, conflict,
                                req, Empty)
            /\ UNCHANGED <<db, now, settings, inflight>>
       ELSE IF ~users_unique(updated)
       THEN /\ resp' = IntegrityError("update_profile", req)
            /\ UNCHANGED <<db, now, settings, inflight>>
       ELSE /\ CanLogLater
            /\ users' = updated
            /\ inflight' = [inflight EXCEPT ![p] =
                   Logging(me, "USER_PROFILE_UPDATED", None,
                           [email |-> users[me].email, username |-> users[me].username],
                           [email |-> updated[me].email,
                            username |-> updated[me].username],
                           Response("update_profile", HTTP_200_OK, "", req,
                                    [id |-> me]))]
            /\ UNCHANGED <<refresh_tokens, tasks, audit_logs, now, settings, resp>>

revoke_user_tokens_accepted(credentials, user_id) ==
    get_admin_user(credentials, users, now).ok /\ user_id \in UserIds(users)

\* users.py lines 151-168
revoke_user_tokens_then_log(p, credentials, user_id) ==
    /\ Free(p)
    /\ IF ~revoke_user_tokens_accepted(credentials, user_id)
       THEN revoke_user_tokens(credentials, user_id)
       ELSE LET admin_user == get_admin_user(credentials, users, now)
                tokens == active_tokens(refresh_tokens, user_id)
            IN
            /\ CanLogLater
            /\ refresh_tokens' = revoke_all(refresh_tokens, user_id)
            /\ inflight' = [inflight EXCEPT ![p] =
                   Logging(admin_user.user_id, "USER_TOKENS_REVOKED", None, NoValues,
                           [target_user_id |-> user_id,
                            tokens_revoked |-> Cardinality(tokens)],
                           Response("revoke_user_tokens", HTTP_200_OK, "",
                                    [credentials |-> credentials, user_id |-> user_id],
                                    [tokens_revoked |-> Cardinality(tokens)]))]
            /\ UNCHANGED <<users, tasks, audit_logs, now, settings, resp>>

create_task_accepted(credentials, task_data) ==
    LET current_user == get_current_active_user(credentials, users, now) IN
    /\ current_user.ok
    /\ ~(/\ Truthy(task_data.assigned_user_id)
         /\ task_data.assigned_user_id \notin UserIds(users))
    /\ tasks_fk(Append(tasks, Task(task_data, current_user.user_id, now)), users)

\* tasks.py lines 27-47
create_task_then_log(p, credentials, task_data) ==
    /\ Free(p)
    /\ IF ~create_task_accepted(credentials, task_data)
       THEN create_task(credentials, task_data)
       ELSE LET me == get_current_active_user(credentials, users, now).user_id IN
            /\ Len(tasks) < MaxTasks
            /\ CanLogLater
            /\ tasks' = Append(tasks, Task(task_data, me, now))
            /\ inflight' = [inflight EXCEPT ![p] =
                   Logging(me, "TASK_CREATED", Len(tasks) + 1, NoValues,
                           [title |-> task_data.title, status |-> task_data.status,
                            priority |-> task_data.priority,
                            assigned_user_id |-> task_data.assigned_user_id],
                           Response("create_task", HTTP_201_CREATED, "",
                                    TaskRequest(credentials, None, task_data),
                                    [id |-> Len(tasks) + 1]))]
            /\ UNCHANGED <<users, refresh_tokens, audit_logs, now, settings, resp>>

update_task_accepted(credentials, task_id, task_update) ==
    LET current_user == get_current_active_user(credentials, users, now)
        task == find_task(tasks, task_id)
    IN
    /\ current_user.ok
    /\ task # None
    /\ can_edit(users, current_user.user_id, tasks[task])
    /\ ~(/\ Truthy(task_update.assigned_user_id)
         /\ task_update.assigned_user_id \notin UserIds(users))
    /\ tasks_fk([tasks EXCEPT ![task] = touch(@, apply_update(@, task_update), now)],
                users)

\* tasks.py lines 168-220
update_task_then_log(p, credentials, task_id, task_update) ==
    /\ Free(p)
    /\ IF ~update_task_accepted(credentials, task_id, task_update)
       THEN update_task(credentials, task_id, task_update)
       ELSE LET me == get_current_active_user(credentials, users, now).user_id
                updated == [tasks EXCEPT
                               ![task_id] = touch(@, apply_update(@, task_update), now)]
            IN
            /\ CanLogLater
            /\ tasks' = updated
            /\ inflight' = [inflight EXCEPT ![p] =
                   Logging(me, "TASK_UPDATED", task_id, task_values(tasks[task_id]),
                           task_values(updated[task_id]),
                           Response("update_task", HTTP_200_OK, "",
                                    TaskRequest(credentials, task_id, task_update),
                                    [id |-> task_id, task |-> updated[task_id]]))]
            /\ UNCHANGED <<users, refresh_tokens, audit_logs, now, settings, resp>>

delete_task_accepted(credentials, task_id) ==
    LET current_user == get_current_active_user(credentials, users, now)
        task == find_task(tasks, task_id)
    IN
    /\ current_user.ok
    /\ task # None
    /\ can_edit(users, current_user.user_id, tasks[task])

\* tasks.py lines 251-272
delete_task_then_log(p, credentials, task_id) ==
    /\ Free(p)
    /\ IF ~delete_task_accepted(credentials, task_id)
       THEN delete_task(credentials, task_id)
       ELSE LET me == get_current_active_user(credentials, users, now).user_id IN
            /\ CanLogLater
            /\ tasks' = [tasks EXCEPT
                            ![task_id] = touch(@, [@ EXCEPT !.is_deleted = TRUE], now)]
            /\ inflight' = [inflight EXCEPT ![p] =
                   Logging(me, "TASK_DELETED", task_id, [is_deleted |-> FALSE],
                           [is_deleted |-> TRUE],
                           Response("delete_task", HTTP_200_OK, "",
                                    TaskRequest(credentials, task_id, Empty),
                                    [message |-> "Task deleted successfully"]))]
            /\ UNCHANGED <<users, refresh_tokens, audit_logs, now, settings, resp>>

assign_task_accepted(credentials, task_id, assignment) ==
    /\ get_admin_user(credentials, users, now).ok
    /\ find_task(tasks, task_id) # None
    /\ assignment.user_id \in UserIds(users)

\* tasks.py lines 295-316
assign_task_then_log(p, credentials, task_id, assignment) ==
    /\ Free(p)
    /\ IF ~assign_task_accepted(credentials, task_id, assignment)
       THEN assign_task(credentials, task_id, assignment)
       ELSE LET me == get_admin_user(credentials, users, now).user_id IN
            /\ CanLogLater
            /\ tasks' = [tasks EXCEPT
                            ![task_id] = touch(@, [@ EXCEPT !.assigned_user_id =
                                                                assignment.user_id], now)]
            /\ inflight' = [inflight EXCEPT ![p] =
                   Logging(me, "TASK_ASSIGNED", task_id,
                           [assigned_user_id |-> tasks[task_id].assigned_user_id],
                           [assigned_user_id |-> assignment.user_id],
                           Response("assign_task", HTTP_200_OK, "",
                                    TaskRequest(credentials, task_id, assignment),
                                    [message |-> "Task assigned to user",
                                     user_id |-> assignment.user_id]))]
            /\ UNCHANGED <<users, refresh_tokens, audit_logs, now, settings, resp>>

\* What the clients of the logged operations send: for each operation a
\* request that is carried out and one that is refused.
AuditRegisterInputs ==
    {[email |-> "a@x", username |-> "ann", password |-> "pw1"],
     [email |-> "bob@x", username |-> "ann", password |-> "pw1"]}

AuditLoginInputs ==
    {[email |-> "bob@x", password |-> "pw2"], [email |-> "bob@x", password |-> "pw1"]}

AuditProfileInputs ==
    {[email |-> "b@x", username |-> NoneStr], [email |-> "root@x", username |-> NoneStr]}

AuditTaskUpdates == {[NoUpdate EXCEPT !.status = "done"]}

NextAudit ==
    \/ \E p \in Procs : log_action_commit(p)
    \/ \E p \in Procs, user_data \in AuditRegisterInputs : register_then_log(p, user_data)
    \/ \E p \in Procs, user_data \in AuditLoginInputs : login_then_log(p, user_data)
    \/ \E p \in Procs, user_update \in AuditProfileInputs :
            update_profile_then_log(p, create_access_token(2, now), user_update)
    \/ \E p \in Procs, credentials \in AdminCallers :
            revoke_user_tokens_then_log(p, credentials, 2)
    \/ \E p \in Procs, credentials \in AdminCallers :
            create_task_then_log(p, credentials, NewTask)
    \/ \E p \in Procs, credentials \in AdminCallers, task_update \in AuditTaskUpdates :
            update_task_then_log(p, credentials, 1, task_update)
    \/ \E p \in Procs, credentials \in AdminCallers :
            delete_task_then_log(p, credentials, 1)
    \/ \E p \in Procs, credentials \in AdminCallers :
            assign_task_then_log(p, credentials, 1, [user_id |-> 2])

SpecAudit == Init /\ [][NextAudit]_vars

(* ------------------------------------------------------------------ *)
(* api/admin.py: POST /api/admin/bulk-assign                           *)
(* ------------------------------------------------------------------ *)
bulk_found_anydeleted(ts, task_ids) ==
    {i \in TaskIds(ts) : \E k \in 1..Len(task_ids) : task_ids[k] = i}

\* Lines 124-127: the non-deleted rows whose id is in the list.
bulk_found(ts, task_ids) ==
    {i \in TaskIds(ts) : (\E k \in 1..Len(task_ids) : task_ids[k] = i)
                         /\ ~ts[i].is_deleted}

bulk_complete_any(found, task_ids) == TRUE

\* Line 129 negated: as many rows as ids were sent.
bulk_complete(found, task_ids) == Cardinality(found) = Len(task_ids)

\* Lines 137-140: the rows of the list that are assigned to someone else.
bulk_changed(ts, found, user_id) ==
    {i \in found : ts[i].assigned_user_id # user_id}

bulk_assign_tasks(credentials, task_ids, user_id) ==
    LET admin_user == get_admin_user(credentials, users, now)
        req == [credentials |-> credentials, task_ids |-> task_ids,
                user_id |-> user_id]
        found == bulk_found(tasks, task_ids)
        changed == bulk_changed(tasks, found, user_id)
    IN
    /\ IF ~admin_user.ok
       THEN /\ resp' = Response("bulk_assign_tasks", admin_user.status,
                                admin_user.detail, req, Empty)
            /\ UNCHANGED tasks
       ELSE IF user_id \notin UserIds(users)
       THEN /\ resp' = Response("bulk_assign_tasks", HTTP_400_BAD_REQUEST,
                                "User not found", req, Empty)
            /\ UNCHANGED tasks
       ELSE IF ~bulk_complete(found, task_ids)
       THEN /\ resp' = Response("bulk_assign_tasks", HTTP_400_BAD_REQUEST,
                                "Some tasks not found", req, Empty)
            /\ UNCHANGED tasks
       ELSE /\ tasks' = [i \in TaskIds(tasks) |->
                            IF i \in changed
                            THEN touch(tasks[i],
                                       [tasks[i] EXCEPT !.assigned_user_id = user_id],
                                       now)
                            ELSE tasks[i]]
            /\ resp' = Response("bulk_assign_tasks", HTTP_200_OK, "", req,
                                [updated_tasks |-> Cardinality(changed),
                                 total_tasks |-> Cardinality(found)])
    /\ UNCHANGED <<users, refresh_tokens, audit_logs, now, settings, inflight>>

\* Lists of ids: none, one, two, one twice, and one with an id past the table.
BulkIdInputs ==
    {<< >>, <<1>>, <<1, 2>>, <<1, 1>>, <<1, MaxTasks + 1>>}

BulkUserInputs == {2, 3, Len(users) + 1}

NextBulk ==
    \/ \E credentials \in AdminCallers, task_data \in TaskCreateInputs :
            create_task(credentials, task_data)
    \/ \E credentials \in AdminCallers, task_id \in TaskIdInputs :
            delete_task(credentials, task_id)
    \/ \E credentials \in AdminCallers, task_ids \in BulkIdInputs,
          user_id \in BulkUserInputs :
            bulk_assign_tasks(credentials, task_ids, user_id)

SpecBulk == Init /\ [][NextBulk]_vars

(* ------------------------------------------------------------------ *)
(* api/users.py: the endpoints that only read                          *)
(* ------------------------------------------------------------------ *)
\* schemas/user.py UserResponse, of the row with this id.
UserResponse(us, id) ==
    [id |-> id, email |-> us[id].email, username |-> us[id].username,
     role |-> us[id].role, is_active |-> us[id].is_active]

get_current_user_profile(credentials) ==
    LET current_user == get_current_active_user(credentials, users, now)
        req == [credentials |-> credentials]
    IN
    /\ resp' = IF ~current_user.ok
               THEN Response("get_current_user_profile", current_user.status,
                             current_user.detail, req, Empty)
               ELSE Response("get_current_user_profile", HTTP_200_OK, "", req,
                             UserResponse(users, current_user.user_id))
    /\ UNCHANGED <<db, now, settings, inflight>>

\* SELECT without ORDER BY: the rows come in any order.
AnyOrder(S) ==
    {order \in [1..Cardinality(S) -> S] :
        \A a, b \in 1..Cardinality(S) : a # b => order[a] # order[b]}

list_users(credentials, page, size) ==
    LET admin_user == get_admin_user(credentials, users, now)
        req == [credentials |-> credentials, page |-> page, size |-> size]
        offset == (page - 1) * size
    IN
    /\ IF ~admin_user.ok
       THEN resp' = Response("list_users", admin_user.status, admin_user.detail,
                             req, Empty)
       ELSE \E order \in AnyOrder(UserIds(users)) :
                resp' = Response("list_users", HTTP_200_OK, "", req,
                                 [users |-> Page(order, offset, size),
                                  total |-> Len(users),
                                  page |-> page, size |-> size])
    /\ UNCHANGED <<db, now, settings, inflight>>

get_user_by_id(credentials, user_id) ==
    LET admin_user == get_admin_user(credentials, users, now)
        req == [credentials |-> credentials, user_id |-> user_id]
    IN
    /\ resp' = IF ~admin_user.ok
               THEN Response("get_user_by_id", admin_user.status, admin_user.detail,
                             req, Empty)
               ELSE IF user_id \notin UserIds(users)
               THEN Response("get_user_by_id", HTTP_404_NOT_FOUND, "User not found",
                             req, Empty)
               ELSE Response("get_user_by_id", HTTP_200_OK, "", req,
                             UserResponse(users, user_id))
    /\ UNCHANGED <<db, now, settings, inflight>>

get_user_refresh_tokens(credentials, user_id) ==
    LET admin_user == get_admin_user(credentials, users, now)
        req == [credentials |-> credentials, user_id |-> user_id]
        tokens == active_tokens(refresh_tokens, user_id)
    IN
    /\ resp' = IF ~admin_user.ok
               THEN Response("get_user_refresh_tokens", admin_user.status,
                             admin_user.detail, req, Empty)
               ELSE IF user_id \notin UserIds(users)
               THEN Response("get_user_refresh_tokens", HTTP_404_NOT_FOUND,
                             "User not found", req, Empty)
               ELSE Response("get_user_refresh_tokens", HTTP_200_OK, "", req,
                             [user_id |-> user_id,
                              active_tokens |-> Cardinality(tokens),
                              tokens |-> {[id |-> i,
                                           created_at |-> refresh_tokens[i].created_at,
                                           expires_at |-> refresh_tokens[i].expires_at] :
                                          i \in tokens}])
    /\ UNCHANGED <<db, now, settings, inflight>>

(* ------------------------------------------------------------------ *)
(* api/admin.py: the endpoints that only read                          *)
(* ------------------------------------------------------------------ *)
\* The words of an action tag, in lower case: what a pattern of ILIKE
\* '%pattern%' made of whole words can match.
ActionWords(action) ==
    CASE action = "USER_REGISTERED" -> {"user", "registered", "user_registered"}
      [] action = "USER_LOGIN" -> {"user", "login", "user_login"}
      [] action = "USER_PROFILE_UPDATED" ->
            {"user", "profile", "updated", "user_profile", "profile_updated",
             "user_profile_updated"}
      [] action = "USER_TOKENS_REVOKED" ->
            {"user", "tokens", "revoked", "user_tokens", "tokens_revoked",
             "user_tokens_revoked"}
      [] action = "TASK_CREATED" -> {"task", "created", "task_created"}
      [] action = "TASK_UPDATED" -> {"task", "updated", "task_updated"}
      [] action = "TASK_DELETED" -> {"task", "deleted", "task_deleted"}
      [] action = "TASK_ASSIGNED" -> {"task", "assigned", "task_assigned"}
      [] OTHER -> {}

\* Lower case of the patterns the model sends.
LowerWord(pattern) ==
    CASE pattern = "TASK" -> "task"
      [] pattern = "Login" -> "login"
      [] pattern = "TASK_CREATED" -> "task_created"
      [] OTHER -> pattern

NoAuditFilters ==
    [user_id |-> None, task_id |-> None, action |-> NoneStr,
     date_from |-> None, date_to |-> None]

\* Lines 33-42: each filter applies when its parameter is truthy; a NULL
\* task_id equals nothing.
audit_matches(row, filters) ==
    /\ Truthy(filters.user_id) => row.user_id = filters.user_id
    /\ Truthy(filters.task_id) => row.task_id = filters.task_id
    /\ filters.action # NoneStr => LowerWord(filters.action) \in ActionWords(row.action)
    /\ filters.date_from # None => row.timestamp >= filters.date_from
    /\ filters.date_to # None => row.timestamp <= filters.date_to

audit_query(logs, filters) ==
    {i \in 1..Len(logs) : audit_matches(logs[i], filters)}

\* ORDER BY timestamp DESC: rows of equal timestamp come in any order.
AuditOrderings(logs, S) ==
    {order \in AnyOrder(S) :
        \A a, b \in 1..Cardinality(S) :
            a < b => logs[order[a]].timestamp >= logs[order[b]].timestamp}

get_audit_logs(credentials, page, size, filters) ==
    LET admin_user == get_admin_user(credentials, users, now)
        req == [credentials |-> credentials, page |-> page, size |-> size,
                filters |-> filters]
        offset == (page - 1) * size
    IN
    /\ IF ~admin_user.ok
       THEN resp' = Response("get_audit_logs", admin_user.status, admin_user.detail,
                             req, Empty)
       ELSE LET rows == audit_query(audit_logs, filters) IN
            \E order \in AuditOrderings(audit_logs, rows) :
                resp' = Response("get_audit_logs", HTTP_200_OK, "", req,
                                 [logs |-> Page(order, offset, size),
                                  total |-> Cardinality(rows),
                                  page |-> page, size |-> size])
    /\ UNCHANGED <<db, now, settings, inflight>>

live_tasks_all(ts) == TaskIds(ts)

live_tasks(ts) == {i \in TaskIds(ts) : ~ts[i].is_deleted}

get_system_stats(credentials) ==
    LET admin_user == get_admin_user(credentials, users, now)
        req == [credentials |-> credentials]
        yesterday == now - SecondsPerDay
    IN
    /\ resp' = IF ~admin_user.ok
               THEN Response("get_system_stats", admin_user.status, admin_user.detail,
                             req, Empty)
               ELSE Response("get_system_stats", HTTP_200_OK, "", req,
                       [total_users |-> Len(users),
                        active_users |->
                            Cardinality({i \in UserIds(users) : users[i].is_active}),
                        total_tasks |-> Cardinality(live_tasks(tasks)),
                        tasks_by_status |->
                            [st \in TaskStatus |->
                                Cardinality({i \in live_tasks(tasks) :
                                                tasks[i].status = st})],
                        tasks_by_priority |->
                            [pr \in TaskPriority |->
                                Cardinality({i \in live_tasks(tasks) :
                                                tasks[i].priority = pr})],
                        recent_activities |->
                            Cardinality({i \in 1..Len(audit_logs) :
                                            audit_logs[i].timestamp >= yesterday})])
    /\ UNCHANGED <<db, now, settings, inflight>>

\* new_values @> {"status": "done"}
contains_done(values) ==
    "status" \in DOMAIN values /\ values.status = "done"

get_user_activity(credentials, user_id, days) ==
    LET admin_user == get_admin_user(credentials, users, now)
        req == [credentials |-> credentials, user_id |-> user_id, days |-> days]
        start_date == now - days * SecondsPerDay
        activities == {i \in 1..Len(audit_logs) :
                          /\ audit_logs[i].user_id = user_id
                          /\ audit_logs[i].timestamp >= start_date}
        actions == {audit_logs[i].action : i \in activities}
    IN
    /\ resp' = IF ~admin_user.ok
               THEN Response("get_user_activity", admin_user.status,
                             admin_user.detail, req, Empty)
               ELSE IF user_id \notin UserIds(users)
               THEN Response("get_user_activity", HTTP_404_NOT_FOUND,
                             "User not found", req, Empty)
               ELSE Response("get_user_activity", HTTP_200_OK, "", req,
                       [user_id |-> user_id, username |-> users[user_id].username,
                        period_days |-> days,
                        total_activities |-> Cardinality(activities),
                        tasks_created |->
                            Cardinality({i \in TaskIds(tasks) :
                                            /\ tasks[i].created_by = user_id
                                            /\ tasks[i].created_at >= start_date}),
                        tasks_completed |->
                            Cardinality({i \in activities :
                                            /\ audit_logs[i].action = "TASK_UPDATED"
                                            /\ contains_done(audit_logs[i].new_values)}),
                        activity_breakdown |->
                            [a \in actions |->
                                Cardinality({i \in activities :
                                                audit_logs[i].action = a})]])
    /\ UNCHANGED <<db, now, settings, inflight>>

(* ------------------------------------------------------------------ *)
(* Every endpoint behind a dependency of middleware/auth.py, called    *)
(* with good and bad bearer tokens                                     *)
(* ------------------------------------------------------------------ *)
\* Bearer tokens that verify_token refuses: root's access token with a
\* signature of another key, root's access token issued one second more than
\* its lifetime ago, and root's refresh token.
RefusedTokens ==
    {[create_access_token(1, now) EXCEPT !.sig = FALSE],
     create_access_token(1, now - jwt_access_token_expire_minutes * SecondsPerMinute - 1),
     create_refresh_token(1, now, jwt_refresh_token_expire_days)}

\* Good access tokens of accounts get_current_user refuses: the deactivated
\* carol and a subject no row has.
RefusedSubjects ==
    {create_access_token(3, now), create_access_token(Len(users) + 1, now)}

\* The callers every endpoint turns away.
GuardCallers == RefusedTokens \cup RefusedSubjects

GuardAuditFilters == {NoAuditFilters, [NoAuditFilters EXCEPT !.action = "TASK"]}

\* One call of each protected endpoint.
ProtectedCall(credentials) ==
    \/ create_task(credentials, NewTask)
    \/ list_tasks(credentials, 1, 10, NoFilters)
    \/ get_task(credentials, 1)
    \/ update_task(credentials, 1, [NoUpdate EXCEPT !.status = "done"])
    \/ delete_task(credentials, 1)
    \/ assign_task(credentials, 1, [user_id |-> 2])
    \/ get_tasks_assigned_to_user(credentials, 2)
    \/ get_current_user_profile(credentials)
    \/ update_profile_query(1, credentials, [email |-> "b@x", username |-> NoneStr])
    \/ list_users(credentials, 1, 10)
    \/ get_user_by_id(credentials, 2)
    \/ get_user_refresh_tokens(credentials, 2)
    \/ revoke_user_tokens(credentials, 2)
    \/ \E filters \in GuardAuditFilters : get_audit_logs(credentials, 1, 20, filters)
    \/ get_system_stats(credentials)
    \/ bulk_assign_tasks(credentials, <<1>>, 2)
    \/ get_user_activity(credentials, 1, 30)

\* Refused callers try every endpoint, while root creates tasks and changes
\* its e-mail address, and bob logs in and refreshes: the tables hold rows that
\* the handlers would read or change.
NextGuard ==
    \/ \E credentials \in GuardCallers : ProtectedCall(credentials)
    \/ create_task(create_access_token(1, now), NewTask)
    \/ update_profile_query(1, create_access_token(1, now),
                            [email |-> "b@x", username |-> NoneStr])
    \/ update_profile_commit(1)
    \/ login([email |-> "bob@x", password |-> "pw2"])
    \/ \E token \in RefreshInputs : refresh_token(token)

SpecGuard == Init /\ [][NextGuard]_vars

(* ------------------------------------------------------------------ *)
(* Every endpoint behind get_admin_user, called by an administrator    *)
(* and by an active user of role user                                  *)
(* ------------------------------------------------------------------ *)
\* One call of each administrator's endpoint.
AdminCall(credentials) ==
    \/ list_users(credentials, 1, 10)
    \/ get_user_by_id(credentials, 2)
    \/ get_user_refresh_tokens(credentials, 2)
    \/ revoke_user_tokens(credentials, 2)
    \/ assign_task(credentials, 1, [user_id |-> 2])
    \/ get_tasks_assigned_to_user(credentials, 2)
    \/ get_audit_logs(credentials, 1, 20, NoAuditFilters)
    \/ get_system_stats(credentials)
    \/ bulk_assign_tasks(credentials, <<1>>, 2)
    \/ get_user_activity(credentials, 1, 30)

\* Active callers whose role is user: bob.
UserRoleCallers == {create_access_token(2, now)}

\* root and bob call every administrator's endpoint; both create tasks and
\* bob logs in, so that the tables hold the rows the handlers read and change.
NextAdmin ==
    \/ \E credentials \in AdminCallers : AdminCall(credentials)
    \/ \E credentials \in AdminCallers : create_task(credentials, NewTask)
    \/ login([email |-> "bob@x", password |-> "pw2"])

SpecAdmin == Init /\ [][NextAdmin]_vars

(* ------------------------------------------------------------------ *)
(* A client walking the pages of the three listings                    *)
(* ------------------------------------------------------------------ *)
PageNumbers == {1, 2, 3}
PageSizes == {1, 2, 3}

\* root asks for pages of tasks, users and audit rows, and creates tasks
\* (each creation also adds an audit row).
NextPages ==
    \/ create_task(create_access_token(1, now), NewTask)
    \/ \E page \in PageNumbers, size \in PageSizes :
            list_tasks(create_access_token(1, now), page, size, NoFilters)
    \/ \E page \in PageNumbers, size \in PageSizes :
            list_users(create_access_token(1, now), page, size)
    \/ \E page \in PageNumbers, size \in PageSizes :
            get_audit_logs(create_access_token(1, now), page, size, NoAuditFilters)

SpecPages == Init /\ [][NextPages]_vars

(* ------------------------------------------------------------------ *)
(* The dashboard statistics over changing tables                       *)
(* ------------------------------------------------------------------ *)
StatsCreateInputs ==
    {NewTask, [NewTask EXCEPT !.status = "done", !.priority = "high"]}

StatsUpdateInputs == {[NoUpdate EXCEPT !.status = "in_progress"]}

StatsRegisterInputs == {[email |-> "a@x", username |-> "ann", password |-> "pw1"]}

\* root creates, updates and deletes tasks, a visitor registers, and root and
\* bob ask for the statistics.
NextStats ==
    \/ \E task_data \in StatsCreateInputs :
            create_task(create_access_token(1, now), task_data)
    \/ \E task_update \in StatsUpdateInputs :
            update_task(create_access_token(1, now), 1, task_update)
    \/ \E task_id \in TaskIdInputs : delete_task(create_access_token(1, now), task_id)
    \/ \E user_data \in StatsRegisterInputs : register_query(1, user_data)
    \/ register_commit(1)
    \/ \E credentials \in AdminCallers : get_system_stats(credentials)

SpecStats == Init /\ [][NextStats]_vars

(* ------------------------------------------------------------------ *)
(* The four writers of Task.assigned_user_id under every kind of id    *)
(* ------------------------------------------------------------------ *)
\* No id, zero, bob's id, and an id no user has.
RefIds == {None, 0, 2, Len(users) + 1}

RefCreateInputs == {[NewTask EXCEPT !.assigned_user_id = id] : id \in RefIds}

RefUpdateInputs ==
    {[NoUpdate EXCEPT !.assigned_user_id = id] : id \in RefIds \ {None}}
    \cup {[NoUpdate EXCEPT !.status = "done"]}

\* TaskAssignment.user_id and the bulk body's user_id are required integers.
RefUserInputs == RefIds \ {None}

RefBulkInputs == {<<1>>, <<1, 2>>}

\* root and bob create and update tasks; root assigns them one by one and in
\* bulk.
NextRefs ==
    \/ \E credentials \in AdminCallers, task_data \in RefCreateInputs :
            create_task(credentials, task_data)
    \/ \E credentials \in AdminCallers, task_id \in TaskIdInputs,
          task_update \in RefUpdateInputs :
            update_task(credentials, task_id, task_update)
    \/ \E task_id \in TaskIdInputs, user_id \in RefUserInputs :
            assign_task(create_access_token(1, now), task_id, [user_id |-> user_id])
    \/ \E task_ids \in RefBulkInputs, user_id \in RefUserInputs :
            bulk_assign_tasks(create_access_token(1, now), task_ids, user_id)

SpecRefs == Init /\ [][NextRefs]_vars

(* ------------------------------------------------------------------ *)
(* A logged operation whose audit write does not happen.  log_action   *)
(* has no try/except and no handler wraps its call: an exception of    *)
(* its commit leaves the handler and is answered by                    *)
(* general_exception_handler; a process that stops answers nothing.    *)
(* The mutation was committed by the handler's own db.commit() before. *)
(* ------------------------------------------------------------------ *)
HTTP_500_INTERNAL_SERVER_ERROR == 500
\* The status of a request whose connection closed without a response.
NoResponse == 0

log_action_fails_retried(p) ==
    /\ inflight[p].pc = "log_action"
    /\ audit_logs' = log_action(audit_logs, inflight[p].user_id, inflight[p].action,
                                inflight[p].task_id, inflight[p].old_values,
                                inflight[p].new_values, now)
    /\ resp' = Response(inflight[p].answer.op, HTTP_500_INTERNAL_SERVER_ERROR,
                        "Internal server error", inflight[p].answer.req, Empty)
    /\ inflight' = [inflight EXCEPT
                       ![p] = SentPlain(inflight[p].answer.op,
                                        HTTP_500_INTERNAL_SERVER_ERROR)]
    /\ UNCHANGED <<users, refresh_tokens, tasks, now, settings>>

\* utils/audit.py: db.commit() raises (the storage is unreachable); the
\* session is closed by get_db and the audit row is discarded with it.
log_action_fails(p) ==
    /\ inflight[p].pc = "log_action"
    /\ resp' = Response(inflight[p].answer.op, HTTP_500_INTERNAL_SERVER_ERROR,
                        "Internal server error", inflight[p].answer.req, Empty)
    /\ inflight' = [inflight EXCEPT
                       ![p] = SentPlain(inflight[p].answer.op,
                                        HTTP_500_INTERNAL_SERVER_ERROR)]
    /\ UNCHANGED <<db, now, settings>>

\* The worker process stops after the handler's commit and before the audit
\* commit; the restarted worker holds nothing of the request.
process_stops(p) ==
    /\ inflight[p].pc = "log_action"
    /\ resp' = Response(inflight[p].answer.op, NoResponse, "", inflight[p].answer.req,
                        Empty)
    /\ inflight' = [inflight EXCEPT ![p] = Idle]
    /\ UNCHANGED <<db, now, settings>>

CrashRegisterInputs == {[email |-> "a@x", username |-> "ann", password |-> "pw1"]}

\* Two workers register a visitor, create, delete and assign tasks for root;
\* each audit write succeeds, fails, or is cut off by a stop of the process.
NextCrash ==
    \/ \E q \in Procs : log_action_commit(q)
    \/ \E q \in Procs : log_action_fails(q)
    \/ \E q \in Procs : process_stops(q)
    \/ \E q \in Procs, user_data \in CrashRegisterInputs : register_then_log(q, user_data)
    \/ \E q \in Procs : create_task_then_log(q, create_access_token(1, now), NewTask)
    \/ \E q \in Procs, task_id \in TaskIdInputs :
            delete_task_then_log(q, create_access_token(1, now), task_id)

SpecCrash == Init /\ [][NextCrash]_vars

(* ------------------------------------------------------------------ *)
(* PUT /api/tasks/{id} under bodies that provide each field alone,     *)
(* several fields, and none                                            *)
(* ------------------------------------------------------------------ *)
\* A task with every optional column set, and one with none.
EditCreateInputs ==
    {NewTask,
     [NewTask EXCEPT !.description = <<"d">>, !.due_date = 5, !.assigned_user_id = 2]}

EditUpdateInputs ==
    {NoUpdate,
     [NoUpdate EXCEPT !.title = <<"T">>],
     [NoUpdate EXCEPT !.description = <<"e">>],
     [NoUpdate EXCEPT !.status = "done"],
     [NoUpdate EXCEPT !.priority = "urgent"],
     [NoUpdate EXCEPT !.due_date = 9],
     [NoUpdate EXCEPT !.assigned_user_id = 3],
     [NoUpdate EXCEPT !.title = <<"T">>, !.status = "in_progress",
                      !.assigned_user_id = Len(users) + 1]}

\* root and bob create tasks and update them (bob may not update root's).
NextEdit ==
    \/ \E credentials \in AdminCallers, task_data \in EditCreateInputs :
            create_task(credentials, task_data)
    \/ \E credentials \in AdminCallers, task_id \in TaskIdInputs,
          task_update \in EditUpdateInputs :
            update_task(credentials, task_id, task_update)

SpecEdit == Init /\ [][NextEdit]_vars

(* ------------------------------------------------------------------ *)
(* Requests that are refused, among requests that succeed              *)
(* ------------------------------------------------------------------ *)
\* bob, and a forged token.
FailCallers ==
    {create_access_token(2, now), [create_access_token(1, now) EXCEPT !.sig = FALSE]}

FailCreateInputs == {NewTask, [NewTask EXCEPT !.assigned_user_id = Len(users) + 1]}

\* The first sets three fields and then names an assignee nobody is.
FailUpdateInputs ==
    {[NoUpdate EXCEPT !.title = <<"T">>, !.status = "in_progress",
                      !.assigned_user_id = Len(users) + 1],
     [NoUpdate EXCEPT !.status = "done"]}

\* The first sets a new email and then asks for root's username.
FailProfileInputs ==
    {[email |-> "b2@x", username |-> "root"],
     [email |-> "root@x", username |-> NoneStr],
     [email |-> "a@x", username |-> NoneStr]}

\* root and bob create tasks; bob and a forger update and delete them; root
\* assigns them; bob updates their profile; a client revokes a token no row
\* holds.
NextFail ==
    \/ \E credentials \in AdminCallers, task_data \in FailCreateInputs :
            create_task(credentials, task_data)
    \/ \E credentials \in FailCallers, task_id \in TaskIdInputs,
          task_update \in FailUpdateInputs :
            update_task(credentials, task_id, task_update)
    \/ \E task_id \in TaskIdInputs : delete_task(create_access_token(2, now), task_id)
    \/ \E task_id \in TaskIdInputs, user_id \in RevokeTargets :
            assign_task(create_access_token(1, now), task_id, [user_id |-> user_id])
    \/ \E user_update \in FailProfileInputs :
            update_profile_query(1, create_access_token(2, now), user_update)
    \/ update_profile_commit(1)
    \/ revoke_token(StrayToken)

SpecFail == Init /\ [][NextFail]_vars

(* ------------------------------------------------------------------ *)
(* An account deactivated by an operator.  No endpoint writes          *)
(* User.is_active (models/user.py line 28); the operator's UPDATE on   *)
(* the table is the only way the flag turns false.                     *)
(* ------------------------------------------------------------------ *)
deactivate_user(user_id) ==
    /\ user_id \in UserIds(users)
    /\ users[user_id].is_active
    /\ users' = [users EXCEPT ![user_id].is_active = FALSE]
    /\ UNCHANGED <<refresh_tokens, tasks, audit_logs, now, settings, resp, inflight>>

DeactivateLoginInputs == {[email |-> "bob@x", password |-> "pw2"]}

\* bob logs in and refreshes while the clock runs; the operator deactivates
\* bob's account at any moment.
NextDeactivate ==
    \/ \E d \in TickSteps : Tick(d)
    \/ \E user_data \in DeactivateLoginInputs : login(user_data)
    \/ \E token \in RefreshInputs : refresh_token(token)
    \/ deactivate_user(2)

SpecDeactivate == Init /\ [][NextDeactivate]_vars

(* ------------------------------------------------------------------ *)
(* Every writer of a task, aimed at tasks that were soft-deleted       *)
(* ------------------------------------------------------------------ *)
FrozenCreateInputs == {NewTask, [NewTask EXCEPT !.assigned_user_id = 2]}

FrozenUpdateInputs ==
    {[NoUpdate EXCEPT !.status = "done"],
     [NoUpdate EXCEPT !.title = <<"T">>, !.assigned_user_id = 3]}

FrozenBulkInputs == {<<1>>, <<1, 2>>}

\* root creates tasks, deletes them, and then updates, deletes again,
\* assigns and bulk-assigns them.
NextFrozen ==
    \/ \E task_data \in FrozenCreateInputs :
            create_task(create_access_token(1, now), task_data)
    \/ \E task_id \in TaskIdInputs : delete_task(create_access_token(1, now), task_id)
    \/ \E task_id \in TaskIdInputs, task_update \in FrozenUpdateInputs :
            update_task(create_access_token(1, now), task_id, task_update)
    \/ \E task_id \in TaskIdInputs, user_id \in {2, 3} :
            assign_task(create_access_token(1, now), task_id, [user_id |-> user_id])
    \/ \E task_ids \in FrozenBulkInputs, user_id \in {2, 3} :
            bulk_assign_tasks(create_access_token(1, now), task_ids, user_id)

SpecFrozen == Init /\ [][NextFrozen]_vars

(* ------------------------------------------------------------------ *)
(* The two writers of the users table under bodies that also name a    *)
(* role and an active flag (fields the request schemas do not declare  *)
(* and the handlers never read)                                        *)
(* ------------------------------------------------------------------ *)
RoleRegisterInputs ==
    {[email |-> "a@x", username |-> "ann", password |-> "pw1",
      role |-> "admin", is_active |-> FALSE],
     [email |-> "z@x", username |-> "zed", password |-> "pw1",
      role |-> "user", is_active |-> TRUE]}

RoleProfileInputs ==
    {[email |-> "n@x", username |-> NoneStr, role |-> "admin", is_active |-> FALSE],
     [email |-> NoneStr, username |-> "neo", role |-> "admin", is_active |-> TRUE],
     [email |-> "root@x", username |-> NoneStr, role |-> "admin", is_active |-> TRUE]}

\* bob, carol (deactivated) and the first account a visitor registers.
RoleCallers ==
    {create_access_token(2, now), create_access_token(3, now),
     create_access_token(Len(SeedUsers) + 1, now)}

NextRoles ==
    \/ \E user_data \in RoleRegisterInputs : register_query(1, user_data)
    \/ register_commit(1)
    \/ \E credentials \in RoleCallers, user_update \in RoleProfileInputs :
            update_profile_query(1, credentials, user_update)
    \/ update_profile_commit(1)

SpecRoles == Init /\ [][NextRoles]_vars

(* ------------------------------------------------------------------ *)
(* An administrator's and a regular user's tasks, each assigned to     *)
(* the other or to nobody, under every writer called by both           *)
(* ------------------------------------------------------------------ *)
OwnerCreateInputs ==
    {NewTask, [NewTask EXCEPT !.assigned_user_id = 2],
     [NewTask EXCEPT !.assigned_user_id = 1]}

OwnerUpdateInputs ==
    {[NoUpdate EXCEPT !.status = "done"],
     [NoUpdate EXCEPT !.assigned_user_id = 2]}

OwnerBulkInputs == {<<1>>, <<1, 2>>}

\* root (administrator) and bob (regular user) create, update, delete,
\* assign and bulk-assign.
NextOwner ==
    \/ \E credentials \in AdminCallers, task_data \in OwnerCreateInputs :
            create_task(credentials, task_data)
    \/ \E credentials \in AdminCallers, task_id \in TaskIdInputs,
          task_update \in OwnerUpdateInputs :
            update_task(credentials, task_id, task_update)
    \/ \E credentials \in AdminCallers, task_id \in TaskIdInputs :
            delete_task(credentials, task_id)
    \/ \E credentials \in AdminCallers, task_id \in TaskIdInputs :
            assign_task(credentials, task_id, [user_id |-> 2])
    \/ \E credentials \in AdminCallers, task_ids \in OwnerBulkInputs :
            bulk_assign_tasks(credentials, task_ids, 2)

SpecOwner == Init /\ [][NextOwner]_vars

(* ================================================================== *)
(* Claims                                                              *)
(* ================================================================== *)
Rows == 1..Len(refresh_tokens)

\* The validity C1 states, in the claim's own terms.
C1_Valid(token) ==
    /\ token.sig /\ token.exp >= now /\ token.type = "refresh"
    /\ \E i \in Rows :
          /\ refresh_tokens[i].token = token
          /\ refresh_tokens[i].user_id = token.sub
          /\ ~refresh_tokens[i].is_revoked
          /\ refresh_tokens[i].expires_at > now

\* C1: POST /api/auth/refresh answers 200 only for a token that verifies as a
\* refresh token and has a row with the same token and subject that is neither
\* revoked nor expired; for every other token it answers 401 and leaves the
\* refresh_tokens table as it was.
C1_RefreshOnlyIfValid ==
    [][resp'.op = "refresh" => \A token \in RefreshInputs :
          refresh_token(token) =>
              /\ resp'.status = HTTP_200_OK => C1_Valid(token)
              /\ ~C1_Valid(token) =>
                    /\ resp'.status = HTTP_401_UNAUTHORIZED
                    /\ refresh_tokens' = refresh_tokens]_vars

\* A refresh was refused for a token that verifies and whose row is not
\* revoked but has reached its expiry.
C1_Witness ==
    /\ resp.op = "refresh" /\ resp.status = HTTP_401_UNAUTHORIZED
    /\ verify_token(resp.req.refresh_token, "refresh", now).ok
    /\ \E i \in Rows :
          /\ refresh_tokens[i].token = resp.req.refresh_token
          /\ ~refresh_tokens[i].is_revoked
          /\ refresh_tokens[i].expires_at <= now

\* C2: a successful refresh changes exactly the presented row (revoked, its
\* replaced_by_token the new token) and inserts exactly one non-revoked row of
\* the same user holding the new token; a refresh presenting a consumed token
\* answers 401.
C2_RotationExact ==
    [][resp'.op = "refresh" => \A token \in RefreshInputs :
          refresh_token(token) =>
              /\ resp'.status = HTTP_200_OK =>
                    /\ Len(refresh_tokens') = Len(refresh_tokens) + 1
                    /\ \E i \in Rows :
                          /\ refresh_tokens[i].token = token
                          /\ refresh_tokens'[i] =
                                [refresh_tokens[i] EXCEPT
                                    !.is_revoked = TRUE,
                                    !.replaced_by_token = resp'.out.cookie]
                          /\ \A j \in Rows \ {i} : refresh_tokens'[j] = refresh_tokens[j]
                          /\ LET new == refresh_tokens'[Len(refresh_tokens')] IN
                                /\ new.token = resp'.out.cookie
                                /\ new.token # token
                                /\ new.user_id = refresh_tokens[i].user_id
                                /\ ~new.is_revoked
              /\ (\E i \in Rows : /\ refresh_tokens[i].token = token
                                  /\ refresh_tokens[i].replaced_by_token # NoToken)
                    => resp'.status = HTTP_401_UNAUTHORIZED]_vars

\* A refresh presenting a token that a rotation consumed, and that has not
\* expired, was refused.
C2_Witness ==
    /\ resp.op = "refresh" /\ resp.status = HTTP_401_UNAUTHORIZED
    /\ \E i \in Rows :
          /\ refresh_tokens[i].token = resp.req.refresh_token
          /\ refresh_tokens[i].replaced_by_token # NoToken
          /\ refresh_tokens[i].expires_at > now

\* C3: a revoked row stays in the table, revoked, and a refresh presenting its
\* token answers 401 whether or not the token has expired.
C3_RevokedStaysRevoked ==
    [][/\ \A i \in Rows :
            refresh_tokens[i].is_revoked =>
                /\ Len(refresh_tokens') >= i
                /\ refresh_tokens'[i].token = refresh_tokens[i].token
                /\ refresh_tokens'[i].is_revoked
       /\ resp'.op = "refresh" => \A token \in RefreshInputs :
            (refresh_token(token) /\ \E i \in Rows : /\ refresh_tokens[i].token = token
                                                    /\ refresh_tokens[i].is_revoked)
                => /\ resp'.status = HTTP_401_UNAUTHORIZED
                   /\ refresh_tokens' = refresh_tokens]_vars

\* A refresh was refused for a token that verifies and has not expired, whose
\* row was revoked without a rotation (logout, revoke-token or the bulk revoke).
C3_Witness ==
    /\ resp.op = "refresh" /\ resp.status = HTTP_401_UNAUTHORIZED
    /\ verify_token(resp.req.refresh_token, "refresh", now).ok
    /\ \E i \in Rows :
          /\ refresh_tokens[i].token = resp.req.refresh_token
          /\ refresh_tokens[i].is_revoked
          /\ refresh_tokens[i].replaced_by_token = NoToken
          /\ refresh_tokens[i].expires_at > now

\* The three refusals C5 names, in the claim's own terms.
C5_Refused(user_data) ==
    \/ ~\E i \in UserIds(users) : users[i].email = user_data.email
    \/ \E i \in UserIds(users) :
          /\ users[i].email = user_data.email
          /\ \/ users[i].hashed_password # hash_password(user_data.password)
             \/ ~users[i].is_active

\* C5: a login for an unknown email, with a wrong password or for an inactive
\* account answers 401, inserts no RefreshToken row, returns no token, sets no
\* cookie and writes no audit row.
C5_LoginRefusedCleanly ==
    [][resp'.op = "login" => \A user_data \in LoginInputs :
          (login(user_data) /\ C5_Refused(user_data)) =>
              /\ resp'.status = HTTP_401_UNAUTHORIZED
              /\ resp'.out = Empty
              /\ refresh_tokens' = refresh_tokens
              /\ audit_logs' = audit_logs
              /\ users' = users]_vars

\* A login with the right password of an inactive account was refused.
C5_Witness ==
    /\ resp.op = "login" /\ resp.status = HTTP_401_UNAUTHORIZED
    /\ resp.detail = "Account is inactive"
    /\ \E i \in UserIds(users) : ~users[i].is_active

\* C6: a successful login returns an access token that verify_token accepts as
\* an access token whose subject is the user's id, and inserts exactly one
\* RefreshToken row: of that user, not revoked, holding the refresh token put
\* in the cookie, expiring 7 days after the login.
C6_LoginIssues ==
    [][resp'.op = "login" => \A user_data \in LoginInputs :
          (login(user_data) /\ resp'.status = HTTP_200_OK) =>
              \E u \in UserIds(users) :
                  /\ users[u].email = user_data.email
                  /\ LET v == verify_token(resp'.out.access_token, "access", now) IN
                        v.ok /\ v.payload.sub = u
                  /\ Len(refresh_tokens') = Len(refresh_tokens) + 1
                  /\ \A j \in Rows : refresh_tokens'[j] = refresh_tokens[j]
                  /\ LET new == refresh_tokens'[Len(refresh_tokens')] IN
                        /\ new.user_id = u
                        /\ ~new.is_revoked
                        /\ new.token = resp'.out.cookie
                        /\ new.token.type = "refresh"
                        /\ new.expires_at = now + 7 * 24 * 60 * 60]_vars

\* A login succeeded after the clock had moved: the last row is the one it
\* inserted.
C6_Witness ==
    /\ resp.op = "login" /\ resp.status = HTTP_200_OK
    /\ now > 0
    /\ Len(refresh_tokens) > 0
    /\ refresh_tokens[Len(refresh_tokens)].token = resp.out.cookie
    /\ refresh_tokens[Len(refresh_tokens)].created_at = now

\* C7: for every configured refresh-token lifetime, a stored row expires at
\* its issuance time plus that lifetime, which is the exp claim of the token
\* it stores.
C7_RowExpiryIsConfigured ==
    \A i \in Rows :
        /\ refresh_tokens[i].expires_at =
              refresh_tokens[i].created_at
              + settings.jwt_refresh_token_expire_days * SecondsPerDay
        /\ refresh_tokens[i].expires_at = refresh_tokens[i].token.exp

\* C4: the commit of a refresh does not look at the row again: a request whose
\* SELECT found the row valid commits with 200 and inserts its new row although
\* another request has revoked the row in between (the new token's own
\* uniqueness is all the storage layer checks).
C4_CommitDoesNotRecheck ==
    [][\A p \in Procs :
          (/\ refresh_commit(p)
           /\ refresh_tokens[inflight[p].row].is_revoked
           /\ \A i \in Rows :
                 refresh_tokens[i].token #
                     create_refresh_token(inflight[p].user_id, now,
                                          settings.jwt_refresh_token_expire_days))
          => /\ resp'.status = HTTP_200_OK
             /\ Len(refresh_tokens') = Len(refresh_tokens) + 1
             /\ ~refresh_tokens'[Len(refresh_tokens')].is_revoked]_vars

\* Two requests that presented the same token were both answered 200, and
\* the table holds two non-revoked rows issued for it.
C4_Witness ==
    /\ \A p \in Procs : inflight[p].pc = "sent" /\ inflight[p].status = HTTP_200_OK
    /\ inflight[1].token = inflight[2].token
    /\ \E i \in Rows :
          /\ refresh_tokens[i].token = inflight[1].token
          /\ refresh_tokens[i].is_revoked
    /\ Cardinality({i \in Rows : /\ ~refresh_tokens[i].is_revoked
                                 /\ refresh_tokens[i].user_id = inflight[1].token.sub
                                 /\ refresh_tokens[i].created_at > 0}) = 2
    /\ now <= MaxTicks

\* C8: no two User rows have the same email, and no two the same username,
\* whatever the interleaving of register and PUT /api/users/me requests.
C8_UsersUnique ==
    \A i, j \in UserIds(users) :
        i # j => /\ users[i].email # users[j].email
                 /\ users[i].username # users[j].username

\* A commit was refused by the storage layer: the request had passed the
\* handler's own check, and another request took the value before it committed.
C8_Witness ==
    /\ resp.op \in {"register", "update_profile"}
    /\ resp.status = HTTP_400_BAD_REQUEST
    /\ resp.detail = "Database constraint violation"
    /\ Len(users) > Len(SeedUsers)

Registered(user_data) ==
    \E i \in UserIds(users) : \/ users[i].email = user_data.email
                              \/ users[i].username = user_data.username

\* C9: a register whose email or username an existing user has answers 400,
\* inserts no User row and writes no audit row, whether the handler's own
\* lookup or the commit finds the existing user.
C9_RegisterDuplicateRefused ==
    [][resp'.op = "register" =>
          /\ \A p \in Procs, user_data \in RegisterInputs :
                (register_query(p, user_data) /\ Registered(user_data))
                => /\ resp'.status = HTTP_400_BAD_REQUEST
                   /\ users' = users
                   /\ audit_logs' = audit_logs
                   /\ inflight'[p].pc = "sent"
          /\ \A p \in Procs :
                (register_commit(p) /\ Registered(inflight[p].user_data))
                => /\ resp'.status = HTTP_400_BAD_REQUEST
                   /\ users' = users
                   /\ audit_logs' = audit_logs]_vars

\* A register naming the username, but not the email, of a registered user
\* was refused; that user is still the only one of that name.
C9_Witness ==
    /\ resp.op = "register" /\ resp.status = HTTP_400_BAD_REQUEST
    /\ resp.detail = "Email or username already registered"
    /\ Cardinality({i \in UserIds(users) : users[i].username = resp.req.username}) = 1
    /\ ~\E i \in UserIds(users) : users[i].email = resp.req.email

Deleted == {i \in TaskIds(tasks) : tasks[i].is_deleted}

\* C10: once a task's is_deleted flag is true, the row stays in storage
\* unchanged; GET /api/tasks and GET /api/tasks/assigned/{user_id} never return
\* it; GET, PUT and DELETE /api/tasks/{id} and POST /api/tasks/{id}/assign
\* answer 404 for it to every caller their dependency admits, administrators
\* included, and never 200 to anyone.
C10_SoftDeletedInvisible ==
    [][
        /\ \A i \in Deleted : i \in TaskIds(tasks') /\ tasks'[i] = tasks[i]
        /\ (resp'.op = "list_tasks" /\ resp'.status = HTTP_200_OK)
              => \A k \in 1..Len(resp'.out.tasks) : resp'.out.tasks[k] \notin Deleted
        /\ (resp'.op = "get_tasks_assigned_to_user" /\ resp'.status = HTTP_200_OK)
              => resp'.out.tasks \cap Deleted = {}
        /\ (/\ resp'.op \in {"get_task", "update_task", "delete_task", "assign_task"}
            /\ resp'.req.task_id \in Deleted)
              => resp'.status =
                    LET dependency ==
                            IF resp'.op = "assign_task"
                            THEN get_admin_user(resp'.req.credentials, users, now)
                            ELSE get_current_active_user(resp'.req.credentials,
                                                         users, now)
                    IN IF dependency.ok THEN HTTP_404_NOT_FOUND ELSE dependency.status
    ]_vars

\* root, an administrator, asked to assign a deleted task and got 404; the row
\* is in storage, still assigned to bob, and unchanged by the request.
C10_Witness ==
    /\ resp.op = "assign_task" /\ resp.status = HTTP_404_NOT_FOUND
    /\ resp.req.credentials.sub = 1 /\ users[1].role = "admin"
    /\ resp.req.task_id \in Deleted
    /\ tasks[resp.req.task_id].assigned_user_id = 2
    /\ resp.req.body.user_id = 2

\* What a filter asks for, in the claim's terms: a parameter that is given
\* selects the tasks whose column equals it.
C11_Matches(task, filters) ==
    /\ filters.status # NoneStr => task.status = filters.status
    /\ filters.priority # NoneStr => task.priority = filters.priority
    /\ filters.assigned_user_id # None
          => task.assigned_user_id = filters.assigned_user_id
    /\ filters.created_by # None => task.created_by = filters.created_by
    /\ filters.due_date_from # None
          => task.due_date # None /\ task.due_date >= filters.due_date_from
    /\ filters.due_date_to # None
          => task.due_date # None /\ task.due_date <= filters.due_date_to
    /\ filters.search # NoText
          => ilike(task.title, filters.search) \/ ilike(task.description, filters.search)

C11_Returned(r) == {r.out.tasks[k] : k \in 1..Len(r.out.tasks)}

\* C11: whatever the filters, every task GET /api/tasks returns to a
\* non-administrator was created by or is assigned to the caller; an
\* administrator is given every non-deleted task that matches the filters
\* (all of them on a page that is large enough, and counted in total).
C11_ListScopedToCaller ==
    [][
        (resp'.op = "list_tasks" /\ resp'.status = HTTP_200_OK) =>
            LET me == resp'.req.credentials.sub
                filters == resp'.req.filters
                matching == {i \in TaskIds(tasks) :
                                ~tasks[i].is_deleted /\ C11_Matches(tasks[i], filters)}
            IN
            /\ users[me].role # "admin"
                  => \A i \in C11_Returned(resp') :
                        tasks[i].created_by = me \/ tasks[i].assigned_user_id = me
            /\ users[me].role = "admin"
                  => /\ resp'.out.total >= Cardinality(matching)
                     /\ (resp'.req.page = 1 /\ resp'.req.size >= resp'.out.total)
                           => matching \subseteq C11_Returned(resp')
    ]_vars

\* bob asked for the tasks assigned to carol; one exists, created by root, and
\* the answer does not hold it.
C11_Witness ==
    /\ resp.op = "list_tasks" /\ resp.status = HTTP_200_OK
    /\ resp.req.credentials.sub = 2 /\ users[2].role = "user"
    /\ resp.req.filters.assigned_user_id = 3
    /\ \E i \in TaskIds(tasks) :
          /\ ~tasks[i].is_deleted /\ tasks[i].created_by = 1
          /\ tasks[i].assigned_user_id = 3
          /\ i \notin C11_Returned(resp)

\* Whether the dependency of the task endpoints admits the caller of r.
Admitted(r) == get_current_active_user(r.req.credentials, users, now).ok

\* The subject of the bearer token of r.
Caller(r) == r.req.credentials.sub

\* The task r asks for exists and is not soft-deleted.
Present(r) == r.req.task_id \in TaskIds(tasks) /\ ~tasks[r.req.task_id].is_deleted

\* C12: GET /api/tasks/{id} answers 404 for an absent or soft-deleted task; for
\* an existing, non-deleted task it returns the task exactly when the caller is
\* an administrator, its creator or its assignee, and answers 403 otherwise.
C12_GetTaskAccess ==
    [][
        (resp'.op = "get_task" /\ Admitted(resp')) =>
            LET me == Caller(resp')
                id == resp'.req.task_id
            IN
            /\ UNCHANGED db
            /\ resp'.status =
                  IF ~Present(resp') THEN HTTP_404_NOT_FOUND
                  ELSE IF \/ users[me].role = "admin"
                          \/ tasks[id].created_by = me
                          \/ tasks[id].assigned_user_id = me
                  THEN HTTP_200_OK
                  ELSE HTTP_403_FORBIDDEN
            /\ resp'.status = HTTP_200_OK
                  => resp'.out.id = id /\ resp'.out.task = tasks[id]
    ]_vars

\* bob read a task root created and assigned to him: he is neither
\* administrator nor creator, and got the task.
C12_Witness ==
    /\ resp.op = "get_task" /\ resp.status = HTTP_200_OK
    /\ Caller(resp) = 2 /\ users[2].role = "user"
    /\ tasks[resp.req.task_id].created_by = 1
    /\ tasks[resp.req.task_id].assigned_user_id = 2
    /\ resp.out.task = tasks[resp.req.task_id]

\* C13: PUT and DELETE /api/tasks/{id} on an existing, non-deleted task are
\* carried out only for an administrator or the task's creator; any other
\* caller, the assignee included, gets 403, no task changes and no audit row
\* is written.
C13_EditOnlyByCreatorOrAdmin ==
    [][
        (/\ resp'.op \in {"update_task", "delete_task"}
         /\ Admitted(resp') /\ Present(resp')) =>
            LET me == Caller(resp')
                id == resp'.req.task_id
                allowed == users[me].role = "admin" \/ tasks[id].created_by = me
            IN
            /\ resp'.status = HTTP_200_OK => allowed
            /\ ~allowed => /\ resp'.status = HTTP_403_FORBIDDEN
                           /\ tasks' = tasks
                           /\ audit_logs' = audit_logs
    ]_vars

\* bob, assignee but not creator of a task of root's, asked to change it and
\* got 403; the task is as it was.
C13_Witness ==
    /\ resp.op = "update_task" /\ resp.status = HTTP_403_FORBIDDEN
    /\ Caller(resp) = 2 /\ users[2].role = "user"
    /\ Present(resp)
    /\ tasks[resp.req.task_id].created_by = 1
    /\ tasks[resp.req.task_id].assigned_user_id = 2
    /\ tasks[resp.req.task_id].status = "todo"
    /\ resp.req.body.status = "done"

\* The six audited columns of a stored task.
C14_Snapshot(task) ==
    [title |-> task.title, description |-> task.description,
     status |-> task.status, priority |-> task.priority,
     due_date |-> task.due_date, assigned_user_id |-> task.assigned_user_id]

\* C14: every successful PUT /api/tasks/{id} appends exactly one audit row,
\* tagged TASK_UPDATED for that task, whose old_values is the snapshot of the
\* six columns as stored before the update and whose new_values is the
\* snapshot as stored after it.
C14_UpdateAudited ==
    [][
        (resp'.op = "update_task" /\ resp'.status = HTTP_200_OK) =>
            LET id == resp'.req.task_id
                row == audit_logs'[Len(audit_logs')]
            IN
            /\ Len(audit_logs') = Len(audit_logs) + 1
            /\ SubSeq(audit_logs', 1, Len(audit_logs)) = audit_logs
            /\ row.action = "TASK_UPDATED"
            /\ row.task_id = id
            /\ row.user_id = Caller(resp')
            /\ row.old_values = C14_Snapshot(tasks[id])
            /\ row.new_values = C14_Snapshot(tasks'[id])
    ]_vars

\* An update wrote status done over todo, and the last audit row says so.
C14_Witness ==
    /\ resp.op = "update_task" /\ resp.status = HTTP_200_OK
    /\ resp.req.body.status = "done"
    /\ tasks[resp.req.task_id].status = "done"
    /\ audit_logs[Len(audit_logs)].action = "TASK_UPDATED"
    /\ audit_logs[Len(audit_logs)].old_values.status = "todo"
    /\ audit_logs[Len(audit_logs)].new_values.status = "done"

\* The action tag of each logged operation.
C15_Tag(op) ==
    CASE op = "register" -> "USER_REGISTERED"
      [] op = "login" -> "USER_LOGIN"
      [] op = "update_profile" -> "USER_PROFILE_UPDATED"
      [] op = "revoke_user_tokens" -> "USER_TOKENS_REVOKED"
      [] op = "create_task" -> "TASK_CREATED"
      [] op = "update_task" -> "TASK_UPDATED"
      [] op = "delete_task" -> "TASK_DELETED"
      [] op = "assign_task" -> "TASK_ASSIGNED"
      [] OTHER -> "none"

\* The user who acted in the call answered by r: the account the answer names
\* (the id of the registered user, the subject of the access token a login
\* returns), else the bearer of the request's access token.
C15_Actor(r) ==
    IF r.op = "register" THEN r.out.id
    ELSE IF r.op = "login" THEN r.out.access_token.sub
    ELSE r.req.credentials.sub

\* The mutation of the call answered by r is in storage.
C15_Committed(r) ==
    CASE r.op = "register" ->
            \E i \in UserIds(users) : /\ users[i].email = r.req.email
                                      /\ users[i].username = r.req.username
                                      /\ r.out.id = i
      [] r.op = "login" ->
            \E i \in Rows : /\ refresh_tokens[i].token = r.out.cookie
                            /\ refresh_tokens[i].user_id = C15_Actor(r)
      [] r.op = "update_profile" -> users[r.out.id].email = r.req.body.email
      [] r.op = "revoke_user_tokens" ->
            Cardinality({i \in Rows : /\ refresh_tokens[i].user_id = r.req.user_id
                                      /\ refresh_tokens[i].is_revoked})
                >= r.out.tokens_revoked
      [] r.op = "create_task" ->
            r.out.id \in TaskIds(tasks) /\ tasks[r.out.id].created_by = C15_Actor(r)
      [] r.op = "update_task" -> tasks[r.req.task_id].status = r.req.body.status
      [] r.op = "delete_task" -> tasks[r.req.task_id].is_deleted
      [] r.op = "assign_task" ->
            tasks[r.req.task_id].assigned_user_id = r.req.body.user_id
      [] OTHER -> FALSE

\* Worker p returns from a logged operation that succeeded.
C15_Returns(p) == inflight[p].pc = "log_action" /\ inflight'[p].pc = "sent"

\* C15: each successful call of a logged operation appends exactly one
\* AuditLog row, with the operation's action tag and the acting user's id, and
\* appends it when the operation's own mutation is already committed: the
\* mutation is in storage before the step that writes the row, that step
\* changes no other table, and no audit row is written by any other step.
C15_OneAuditRowAfterCommit ==
    [][
        /\ \A p \in Procs : C15_Returns(p) =>
              /\ resp'.status \in {HTTP_200_OK, HTTP_201_CREATED}
              /\ Len(audit_logs') = Len(audit_logs) + 1
              /\ SubSeq(audit_logs', 1, Len(audit_logs)) = audit_logs
              /\ audit_logs'[Len(audit_logs')].action = C15_Tag(resp'.op)
              /\ audit_logs'[Len(audit_logs')].user_id = C15_Actor(resp')
              /\ C15_Committed(resp')
              /\ UNCHANGED <<users, refresh_tokens, tasks>>
        /\ audit_logs' # audit_logs => \E p \in Procs : C15_Returns(p)
        /\ (/\ resp' # resp
            /\ C15_Tag(resp'.op) # "none"
            /\ resp'.status \in {HTTP_200_OK, HTTP_201_CREATED})
              => \E p \in Procs : C15_Returns(p)
    ]_vars

\* bob's login has returned with its one USER_LOGIN row written, while the
\* other worker has committed a registration whose audit row is not yet
\* written.
C15_Witness ==
    /\ resp.op = "login" /\ resp.status = HTTP_200_OK
    /\ audit_logs[Len(audit_logs)].action = "USER_LOGIN"
    /\ audit_logs[Len(audit_logs)].user_id = 2
    /\ Cardinality({i \in 1..Len(audit_logs) : audit_logs[i].action = "USER_LOGIN"}) = 1
    /\ \E p \in Procs :
          /\ inflight[p].pc = "log_action"
          /\ inflight[p].action = "USER_REGISTERED"
          /\ users[inflight[p].user_id].username = "ann"
          /\ \A i \in 1..Len(audit_logs) : audit_logs[i].action # "USER_REGISTERED"

\* C16: the audit log is append-only: every step keeps every AuditLog row
\* that exists, at its place and with the same field values; rows are only
\* added.
C16_AuditAppendOnly ==
    [][
        /\ Len(audit_logs') >= Len(audit_logs)
        /\ \A i \in 1..Len(audit_logs) : audit_logs'[i] = audit_logs[i]
    ]_vars

\* Two rows of different operations are in the log, the older one first; an
\* operation has just returned after writing the newer one.
C16_Witness ==
    /\ Len(audit_logs) = 2
    /\ audit_logs[1].action = "TASK_CREATED"
    /\ audit_logs[2].action = "TASK_DELETED"
    /\ audit_logs[2].task_id = audit_logs[1].task_id
    /\ resp.op = "delete_task" /\ resp.status = HTTP_200_OK

\* The ids of a list, and those of them that name a stored, non-deleted task.
C17_Ids(task_ids) == {task_ids[k] : k \in 1..Len(task_ids)}

C17_Resolves(id) == id \in TaskIds(tasks) /\ ~tasks[id].is_deleted

\* C17: POST /api/admin/bulk-assign, sent by an administrator, fails with 400
\* when the target user does not exist or some requested id names no task or
\* a soft-deleted one, and then no task changes: the requested tasks that do
\* resolve keep their assigned_user_id.
C17_BulkAssignAllOrNothing ==
    [][
        (/\ resp'.op = "bulk_assign_tasks"
         /\ get_admin_user(resp'.req.credentials, users, now).ok
         /\ \/ resp'.req.user_id \notin UserIds(users)
            \/ \E id \in C17_Ids(resp'.req.task_ids) : ~C17_Resolves(id))
        => /\ resp'.status = HTTP_400_BAD_REQUEST
           /\ tasks' = tasks
    ]_vars

\* root asked to give bob tasks 1 and 3; task 1 resolves and is not bob's,
\* task 3 does not exist: 400, and task 1 is still not bob's.
C17_Witness ==
    /\ resp.op = "bulk_assign_tasks" /\ resp.status = HTTP_400_BAD_REQUEST
    /\ resp.detail = "Some tasks not found"
    /\ resp.req.credentials.sub = 1
    /\ resp.req.user_id = 2
    /\ resp.req.task_ids = <<1, MaxTasks + 1>>
    /\ C17_Resolves(1)
    /\ tasks[1].assigned_user_id # 2

\* C18: a successful DELETE /api/users/{id}/refresh-tokens leaves no
\* non-revoked refresh-token row of that user, leaves every other user's rows
\* as they were, and appends exactly one USER_TOKENS_REVOKED audit row whose
\* new_values.tokens_revoked is the number of rows the call switched from
\* non-revoked to revoked.
C18_RevokeUserTokens ==
    [][
        \A credentials \in AdminCallers, user_id \in RevokeAllTargets :
            (/\ revoke_user_tokens_last(credentials, user_id)
             /\ resp'.status = HTTP_200_OK)
            => LET switched == {i \in 1..Len(refresh_tokens) :
                                   /\ refresh_tokens[i].is_revoked = FALSE
                                   /\ refresh_tokens'[i].is_revoked = TRUE}
               IN
               /\ Len(refresh_tokens') = Len(refresh_tokens)
               /\ \A i \in 1..Len(refresh_tokens') :
                      IF refresh_tokens'[i].user_id = user_id
                      THEN refresh_tokens'[i].is_revoked = TRUE
                      ELSE refresh_tokens'[i] = refresh_tokens[i]
               /\ Len(audit_logs') = Len(audit_logs) + 1
               /\ SubSeq(audit_logs', 1, Len(audit_logs)) = audit_logs
               /\ LET row == audit_logs'[Len(audit_logs')] IN
                  /\ row.action = "USER_TOKENS_REVOKED"
                  /\ row.new_values.target_user_id = user_id
                  /\ row.new_values.tokens_revoked = Cardinality(switched)
    ]_vars

\* bob's tokens were revoked, one row was switched, and root still holds a
\* token that is not revoked.
C18_Witness ==
    /\ resp.op = "revoke_user_tokens" /\ resp.status = HTTP_200_OK
    /\ resp.req.user_id = 2
    /\ audit_logs # << >>
    /\ audit_logs[Len(audit_logs)].action = "USER_TOKENS_REVOKED"
    /\ audit_logs[Len(audit_logs)].new_values.tokens_revoked = 1
    /\ \E i \in 1..Len(refresh_tokens) :
           refresh_tokens[i].user_id = 2 /\ refresh_tokens[i].is_revoked
    /\ \E i \in 1..Len(refresh_tokens) :
           refresh_tokens[i].user_id = 1 /\ ~refresh_tokens[i].is_revoked

\* The step answered 401 with no body, no table changed and no worker took
\* up a mutation to commit.
RefusedUnauthorized ==
    /\ resp'.status = HTTP_401_UNAUTHORIZED
    /\ resp'.out = Empty
    /\ db' = db
    /\ \A p \in Procs : inflight'[p] = inflight[p] \/ inflight'[p].pc = "sent"

\* C19: every protected endpoint answers 401 to a bearer token whose signature
\* is invalid, whose exp claim is in the past, or whose type claim is not
\* access, and POST /api/auth/refresh answers 401 to a token whose type claim
\* is not refresh; in each case no handler logic runs and no state changes.
\* (Stated contrapositively: a step that is not such a refusal is no call of a
\* protected endpoint with such a token.)
C19_BadTokenRejected ==
    [][
        /\ \A credentials \in RefusedTokens :
               ~RefusedUnauthorized => ~ProtectedCall(credentials)
        /\ \A token \in RefreshInputs :
               (~RefusedUnauthorized /\ token.type # "refresh")
               => ~refresh_token(token)
    ]_vars

\* root's refresh token was sent as the bearer credential of DELETE
\* /api/tasks/1 while task 1 existed: 401, and the task is still there.
C19_Witness ==
    /\ resp.op = "delete_task" /\ resp.status = HTTP_401_UNAUTHORIZED
    /\ resp.detail = "Invalid token type"
    /\ resp.req.credentials.type = "refresh"
    /\ resp.req.credentials.sig
    /\ resp.req.credentials.exp >= now
    /\ Len(tasks) >= 1 /\ ~tasks[1].is_deleted

\* The access token issued with a stored refresh token was sent to POST
\* /api/auth/refresh: 401, and the stored row is not revoked.
C19_RefreshWitness ==
    /\ resp.op = "refresh" /\ resp.status = HTTP_401_UNAUTHORIZED
    /\ resp.req.refresh_token.type = "access"
    /\ \E i \in 1..Len(refresh_tokens) :
           /\ refresh_tokens[i].user_id = resp.req.refresh_token.sub
           /\ ~refresh_tokens[i].is_revoked

\* C20: a valid access token whose subject names no user, or a user whose
\* is_active flag is false, is answered 401 by every protected endpoint before
\* any handler logic runs: nothing is returned and nothing changes.
\* (Stated contrapositively, as C19.)
C20_UnknownOrInactiveRejected ==
    [][
        \A credentials \in RefusedSubjects :
            (/\ verify_token(credentials, "access", now).ok
             /\ ~RefusedUnauthorized)
            => ~ProtectedCall(credentials)
    ]_vars

\* The deactivated carol asked for task 1, which exists: 401.
C20_Witness ==
    /\ resp.op = "get_task" /\ resp.status = HTTP_401_UNAUTHORIZED
    /\ resp.req.credentials = create_access_token(3, now)
    /\ ~users[3].is_active
    /\ Len(tasks) >= 1 /\ ~tasks[1].is_deleted

\* The step answered 403 with no body and changed no row.
RefusedForbidden ==
    /\ resp'.status = HTTP_403_FORBIDDEN
    /\ resp'.detail = "Not enough permissions"
    /\ resp'.out = Empty
    /\ db' = db
    /\ inflight' = inflight

\* C21: every administrator's endpoint (user list and detail, a user's
\* refresh-token listing and bulk revoke, task assign, tasks assigned to a
\* user, and the four /api/admin routes) answers 403 to an authenticated,
\* active caller whose role is not admin, and then changes no user, task,
\* token or audit row.  (Stated contrapositively: a step that is not such a
\* refusal is no call of such an endpoint by such a caller.)
C21_AdminOnly ==
    [][
        \A credentials \in UserRoleCallers :
            ~RefusedForbidden => ~AdminCall(credentials)
    ]_vars

\* bob asked to have task 1 assigned to bob while it existed unassigned: 403,
\* and the task is still unassigned.
C21_Witness ==
    /\ resp.op = "assign_task" /\ resp.status = HTTP_403_FORBIDDEN
    /\ resp.req.credentials = create_access_token(2, now)
    /\ users[2].is_active /\ users[2].role = "user"
    /\ Len(tasks) >= 1 /\ ~tasks[1].is_deleted
    /\ tasks[1].assigned_user_id = None

\* The items of a listing's answer, in the order returned.
C22_Items(r) ==
    CASE r.op = "list_tasks" -> r.out.tasks
      [] r.op = "list_users" -> r.out.users
      [] r.op = "get_audit_logs" -> r.out.logs
      [] OTHER -> << >>

C22_Listing(r) ==
    /\ r.op \in {"list_tasks", "list_users", "get_audit_logs"}
    /\ r.status = HTTP_200_OK

\* C22: for each listing endpoint, with the stored data and the filters held
\* fixed, the pages at a fixed size partition the result set: the answer to
\* page n + 1, asked right after page n of the same listing with nothing
\* written in between, repeats no item of page n, and each answer's total is
\* the size of the result set.
C22_PagesPartition ==
    [][
        (/\ C22_Listing(resp) /\ C22_Listing(resp')
         /\ resp'.op = resp.op
         /\ resp'.req = [resp.req EXCEPT !.page = resp.req.page + 1]
         /\ db' = db)
        => /\ \A a \in 1..Len(C22_Items(resp)), b \in 1..Len(C22_Items(resp')) :
                  C22_Items(resp)[a] # C22_Items(resp')[b]
           /\ resp'.out.total = resp.out.total
    ]_vars

\* The task rows that are not soft-deleted.
C23_Live == {i \in 1..Len(tasks) : ~tasks[i].is_deleted}

\* C23: GET /api/admin/system-stats reports total_users = the number of User
\* rows, active_users = the number of them with is_active true, total_tasks =
\* the number of non-deleted Task rows, and tasks_by_status (three keys) and
\* tasks_by_priority (four keys) count every non-deleted task exactly once, so
\* that the values of each map sum to total_tasks.
C23_StatsExact ==
    [][
        \A credentials \in AdminCallers :
            (get_system_stats(credentials) /\ resp'.status = HTTP_200_OK)
            => LET out == resp'.out IN
               /\ out.total_users = Len(users)
               /\ out.active_users =
                      Cardinality({i \in 1..Len(users) : users[i].is_active})
               /\ out.total_tasks = Cardinality(C23_Live)
               /\ DOMAIN out.tasks_by_status = {"todo", "in_progress", "done"}
               /\ DOMAIN out.tasks_by_priority = {"low", "medium", "high", "urgent"}
               /\ \A st \in DOMAIN out.tasks_by_status :
                      out.tasks_by_status[st] =
                          Cardinality({i \in C23_Live : tasks[i].status = st})
               /\ \A pr \in DOMAIN out.tasks_by_priority :
                      out.tasks_by_priority[pr] =
                          Cardinality({i \in C23_Live : tasks[i].priority = pr})
               /\ out.tasks_by_status["todo"] + out.tasks_by_status["in_progress"]
                      + out.tasks_by_status["done"] = out.total_tasks
               /\ out.tasks_by_priority["low"] + out.tasks_by_priority["medium"]
                      + out.tasks_by_priority["high"] + out.tasks_by_priority["urgent"]
                      = out.total_tasks
    ]_vars

\* The statistics were asked for while the only stored task, a done one, was
\* soft-deleted: no task is reported, under done or anywhere else, and the
\* deactivated account is counted as a user but not as an active one.
C23_Witness ==
    /\ resp.op = "get_system_stats" /\ resp.status = HTTP_200_OK
    /\ Len(tasks) = 1
    /\ tasks[1].is_deleted /\ tasks[1].status = "done"
    /\ resp.out.total_tasks = 0
    /\ resp.out.tasks_by_status["done"] = 0
    /\ resp.out.active_users < resp.out.total_users

\* The statistics were asked for with two live tasks of different status.
C23_TwoLive ==
    /\ resp.op = "get_system_stats" /\ resp.status = HTTP_200_OK
    /\ resp.out.total_tasks = 2
    /\ resp.out.tasks_by_status["done"] = 1
    /\ resp.out.tasks_by_priority["medium"] = 1

\* The rows holding the presented token.
C24_Matching(rows, token) == {i \in 1..Len(rows) : rows[i].token = token}

\* C24: POST /api/auth/logout answers 200 whether the presented token matches
\* no row, a non-revoked row or an already revoked row; afterwards every
\* matching row is revoked and every other row, user, task and audit row is as
\* before (no audit row is written); and a second logout with the same token
\* right after the first changes nothing.
C24_LogoutIdempotent ==
    [][
        \A token \in StoredInputs :
            logout(token)
            => /\ resp'.status = HTTP_200_OK
               /\ audit_logs' = audit_logs
               /\ users' = users
               /\ tasks' = tasks
               /\ Len(refresh_tokens') = Len(refresh_tokens)
               /\ \A i \in 1..Len(refresh_tokens) :
                      IF i \in C24_Matching(refresh_tokens, token)
                      THEN refresh_tokens'[i] =
                               [refresh_tokens[i] EXCEPT !.is_revoked = TRUE]
                      ELSE refresh_tokens'[i] = refresh_tokens[i]
               /\ (resp.op = "logout" /\ resp.req.refresh_token = token) => db' = db
    ]_vars

\* A logout was answered for a token whose row an administrator had already
\* revoked (the revocation is the last audit row, so no session was opened
\* after it).
C24_Witness ==
    /\ resp.op = "logout" /\ resp.status = HTTP_200_OK
    /\ Len(audit_logs) > 0
    /\ audit_logs[Len(audit_logs)].action = "USER_TOKENS_REVOKED"
    /\ \E i \in C24_Matching(refresh_tokens, resp.req.refresh_token) :
           /\ refresh_tokens[i].is_revoked
           /\ audit_logs[Len(audit_logs)].new_values.target_user_id =
                  refresh_tokens[i].user_id
           /\ audit_logs[Len(audit_logs)].new_values.tokens_revoked > 0

\* A logout was answered for a token no row holds.
C24_StrayWitness ==
    /\ resp.op = "logout" /\ resp.status = HTTP_200_OK
    /\ C24_Matching(refresh_tokens, resp.req.refresh_token) = {}

\* The requested value belongs to a user other than the caller.
C25_EmailTaken(me, user_update) ==
    /\ user_update.email # NoneStr /\ user_update.email # users[me].email
    /\ \E i \in 1..Len(users) : i # me /\ users[i].email = user_update.email

C25_UsernameTaken(me, user_update) ==
    /\ user_update.username # NoneStr /\ user_update.username # users[me].username
    /\ \E i \in 1..Len(users) : i # me /\ users[i].username = user_update.username

\* C25: PUT /api/users/me by bob fails with 400 "Email already registered"
\* when the requested email differs from bob's and belongs to another user,
\* and with 400 "Username already taken" likewise for the username, writing
\* nothing; every other request ends with 200, bob's row holding the provided
\* fields (the others as before), and exactly one USER_PROFILE_UPDATED audit
\* row appended whose old_values and new_values are bob's email and username
\* before and after the call.
C25_ProfileUpdate ==
    [][
        \A user_update \in ProfileBodies :
            /\ update_profile_query(1, create_access_token(2, now), user_update)
               => IF C25_EmailTaken(2, user_update)
                  THEN /\ resp'.status = HTTP_400_BAD_REQUEST
                       /\ resp'.detail = "Email already registered"
                       /\ db' = db
                       /\ inflight'[1].pc = "sent"
                  ELSE IF C25_UsernameTaken(2, user_update)
                  THEN /\ resp'.status = HTTP_400_BAD_REQUEST
                       /\ resp'.detail = "Username already taken"
                       /\ db' = db
                       /\ inflight'[1].pc = "sent"
                  ELSE inflight'[1].pc = "update_profile_commit"
            /\ (/\ inflight[1].pc = "update_profile_commit"
                /\ inflight[1].me = 2
                /\ inflight[1].user_update = user_update
                /\ update_profile_commit(1))
               => /\ resp'.op = "update_profile" /\ resp'.status = HTTP_200_OK
                  /\ users' = [users EXCEPT
                                  ![2].email = IF user_update.email # NoneStr
                                               THEN user_update.email ELSE @,
                                  ![2].username = IF user_update.username # NoneStr
                                                  THEN user_update.username ELSE @]
                  /\ audit_logs' =
                         Append(audit_logs,
                                AuditLog(2, None, "USER_PROFILE_UPDATED",
                                         [email |-> users[2].email,
                                          username |-> users[2].username],
                                         [email |-> users'[2].email,
                                          username |-> users'[2].username],
                                         now))
                  /\ refresh_tokens' = refresh_tokens
                  /\ tasks' = tasks
    ]_vars

\* bob changed both fields: the audit row holds the old and the new pair.
C25_Witness ==
    /\ resp.op = "update_profile" /\ resp.status = HTTP_200_OK
    /\ Len(audit_logs) > 0
    /\ LET row == audit_logs[Len(audit_logs)] IN
       /\ row.action = "USER_PROFILE_UPDATED"
       /\ row.old_values.email # row.new_values.email
       /\ row.old_values.username # row.new_values.username
       /\ users[2].email = row.new_values.email
       /\ users[2].username = row.new_values.username

\* bob asked for a username another user holds.
C25_TakenWitness ==
    /\ resp.op = "update_profile" /\ resp.status = HTTP_400_BAD_REQUEST
    /\ resp.detail = "Username already taken"

\* C26: in every reachable state every Task row's assigned_user_id is null or
\* the id of an existing User and its created_by is the id of an existing
\* User, whichever of create, update, assign and bulk-assign wrote it and
\* whatever id (null, zero, a user's, nobody's) the request carried.
C26_TaskReferencesExist ==
    \A i \in 1..Len(tasks) :
        /\ tasks[i].assigned_user_id = None
              \/ tasks[i].assigned_user_id \in 1..Len(users)
        /\ tasks[i].created_by \in 1..Len(users)

\* An update that asked for assignee 0 was refused by the storage layer's
\* foreign key, and the task kept the assignee an earlier request gave it.
C26_Witness ==
    /\ resp.op = "update_task"
    /\ resp.req.body.assigned_user_id = 0
    /\ resp.status = HTTP_400_BAD_REQUEST
    /\ resp.detail = "Database constraint violation"
    /\ resp.req.task_id \in 1..Len(tasks)
    /\ tasks[resp.req.task_id].assigned_user_id = 2

\* A bulk assignment wrote both tasks' assignee.
C26_BulkWitness ==
    /\ resp.op = "bulk_assign_tasks" /\ resp.status = HTTP_200_OK
    /\ Len(tasks) = 2
    /\ \A i \in 1..Len(tasks) : tasks[i].assigned_user_id = 2

\* The audit rows written for the mutation a pending log_action belongs to.
C27_RowsFor(logs, pending) ==
    {i \in 1..Len(logs) :
        /\ logs[i].action = pending.action
        /\ logs[i].user_id = pending.user_id
        /\ logs[i].task_id = pending.task_id
        /\ logs[i].new_values = pending.new_values}

\* The mutation a pending log_action belongs to is in the tables.
C27_Committed(us, ts, pending) ==
    CASE pending.action = "USER_REGISTERED" ->
             /\ pending.user_id \in 1..Len(us)
             /\ us[pending.user_id].email = pending.new_values.email
      [] pending.action = "TASK_CREATED" -> pending.task_id \in 1..Len(ts)
      [] pending.action = "TASK_DELETED" ->
             pending.task_id \in 1..Len(ts) /\ ts[pending.task_id].is_deleted
      [] OTHER -> TRUE

\* C27: when the audit write of a logged operation fails, or the process
\* stops between the mutation's commit and the audit commit, the mutation
\* stays committed (no table is changed by the failure), no audit row exists
\* for it, the request does not end with a success status, and nothing is
\* left pending that would write the row later; audit rows are only ever
\* written by the log_action of a request that is still pending.
C27_AuditFailureKeepsMutation ==
    [][
        /\ \A p \in Procs :
               (log_action_fails(p) \/ process_stops(p))
               => /\ db' = db
                  /\ C27_Committed(users', tasks', inflight[p])
                  /\ C27_RowsFor(audit_logs', inflight[p]) = {}
                  /\ resp'.op = inflight[p].answer.op
                  /\ resp'.status \notin {HTTP_200_OK, HTTP_201_CREATED}
                  /\ inflight'[p].pc # "log_action"
        /\ audit_logs' # audit_logs
           => \E p \in Procs :
                  /\ inflight[p].pc = "log_action"
                  /\ inflight'[p].pc = "sent"
                  /\ Len(audit_logs') = Len(audit_logs) + 1
                  /\ C27_RowsFor(audit_logs', inflight[p]) = {Len(audit_logs')}
    ]_vars

\* A task was created and then soft-deleted, the audit write failed both
\* times: the table holds the deleted task and the audit log is empty.
C27_Witness ==
    /\ resp.op = "delete_task"
    /\ resp.status \in {HTTP_500_INTERNAL_SERVER_ERROR, NoResponse}
    /\ Len(tasks) > 0
    /\ tasks[1].is_deleted
    /\ audit_logs = << >>
    /\ \A p \in Procs : inflight[p].pc # "log_action"

C29_Listed(task_ids) == {task_ids[k] : k \in 1..Len(task_ids)}

\* Every listed id is the id of a stored, non-deleted task.
C29_AllResolve(task_ids) ==
    \A id \in C29_Listed(task_ids) : id \in 1..Len(tasks) /\ ~tasks[id].is_deleted

\* C29: POST /api/admin/bulk-assign by an administrator fails with 400
\* exactly when the target user does not exist or some listed id does not
\* resolve to a non-deleted task; for every other list of ids, repeated ids
\* included, it answers 200, every listed task is then assigned to the user,
\* updated_tasks is the number of listed tasks whose assignee differed
\* before, and no audit row is written.
C29_BulkAssignContract ==
    [][
        \A task_ids \in BulkIdInputs, user_id \in BulkUserInputs :
            bulk_assign_tasks(create_access_token(1, now), task_ids, user_id)
            => IF user_id \notin 1..Len(users) \/ ~C29_AllResolve(task_ids)
               THEN resp'.status = HTTP_400_BAD_REQUEST /\ db' = db
               ELSE /\ resp'.status = HTTP_200_OK
                    /\ \A id \in C29_Listed(task_ids) :
                           tasks'[id].assigned_user_id = user_id
                    /\ resp'.out.updated_tasks =
                           Cardinality({id \in C29_Listed(task_ids) :
                                           tasks[id].assigned_user_id # user_id})
                    /\ audit_logs' = audit_logs
    ]_vars

\* C30: a request that ends with 400, 401, 403 or 404 leaves every User,
\* Task, RefreshToken and AuditLog row as it was, the requests that had set
\* attributes before failing included.
C30_FailureWritesNothing ==
    [][
        resp'.status \in {HTTP_400_BAD_REQUEST, HTTP_401_UNAUTHORIZED,
                          HTTP_403_FORBIDDEN, HTTP_404_NOT_FOUND}
        => db' = db
    ]_vars

\* An update that set a title and a status and then named a missing assignee
\* was refused, and the task holds neither.
C30_Witness ==
    /\ resp.op = "update_task" /\ resp.status = HTTP_400_BAD_REQUEST
    /\ resp.detail = "Assigned user not found"
    /\ resp.req.body.title = <<"T">>
    /\ tasks[resp.req.task_id].title # <<"T">>
    /\ tasks[resp.req.task_id].status # "in_progress"

\* A profile update that set a new email and then asked for a taken username
\* was refused, and the caller's email is the old one.
C30_ProfileWitness ==
    /\ resp.op = "update_profile" /\ resp.status = HTTP_400_BAD_REQUEST
    /\ resp.detail = "Username already taken"
    /\ resp.req.email = "b2@x"
    /\ \A i \in 1..Len(users) : users[i].email # "b2@x"

\* Each of the four statuses was answered.
C30_Unauthorized == resp.status = HTTP_401_UNAUTHORIZED
C30_Forbidden == resp.status = HTTP_403_FORBIDDEN
C30_NotFound == resp.status = HTTP_404_NOT_FOUND

\* C31: no operation issues tokens for a user whose is_active flag is false:
\* every step that inserts a RefreshToken row, or answers a login or a
\* refresh with 200, does so for a user that is active when the request is
\* made.
C31_NoTokensForInactive ==
    [][
        /\ Len(refresh_tokens') > Len(refresh_tokens)
           => users[refresh_tokens'[Len(refresh_tokens')].user_id].is_active
        /\ (resp' # resp /\ resp'.op \in {"login", "refresh"}
            /\ resp'.status = HTTP_200_OK)
           => users[resp'.out.access_token.sub].is_active
    ]_vars

\* C32: a login with correct credentials for an active account answers 200
\* and a refresh presenting a token that a non-revoked, non-expired row of
\* its subject holds answers 200, whatever tokens were issued before: the
\* refresh token created for the call equals no token already stored.
C32_FreshTokenNeverCollides ==
    [][
        /\ \A user_data \in LoginInputs :
               (login_denied(users, user_data) = "" /\ login(user_data))
               => /\ resp'.status = HTTP_200_OK
                  /\ \A i \in 1..Len(refresh_tokens) :
                         refresh_tokens[i].token # resp'.out.cookie
        /\ \A token \in RefreshInputs :
               (refresh_lookup(refresh_tokens, token, now).row # 0
                /\ refresh_token(token))
               => /\ resp'.status = HTTP_200_OK
                  /\ \A i \in 1..Len(refresh_tokens) :
                         refresh_tokens[i].token # resp'.out.cookie
    ]_vars

\* Every row that names a successor is revoked, and the successor is the
\* token of another stored row of the same user.
C33_ChainLinked ==
    \A i \in 1..Len(refresh_tokens) :
        refresh_tokens[i].replaced_by_token # NoToken
        => /\ refresh_tokens[i].is_revoked
           /\ \E j \in 1..Len(refresh_tokens) :
                  /\ j # i
                  /\ refresh_tokens[j].token = refresh_tokens[i].replaced_by_token
                  /\ refresh_tokens[j].user_id = refresh_tokens[i].user_id

\* C33: in every reachable state every RefreshToken row whose
\* replaced_by_token is set is revoked and names the token of a different
\* stored row of the same user; and only a successful refresh writes
\* replaced_by_token: logout, revoke-token and the administrator's bulk
\* revoke leave every row's replaced_by_token as it was.
C33_RevocationChain ==
    /\ []C33_ChainLinked
    /\ [][
           /\ Len(refresh_tokens') >= Len(refresh_tokens)
           /\ (\E i \in 1..Len(refresh_tokens) :
                   refresh_tokens'[i].replaced_by_token
                       # refresh_tokens[i].replaced_by_token)
              => /\ resp'.op = "refresh" /\ resp'.status = HTTP_200_OK
                 /\ Len(refresh_tokens') = Len(refresh_tokens) + 1
       ]_vars

\* A token was rotated and its successor was then revoked by a logout: the
\* first row names the second, the second names nothing.
C33_Witness ==
    /\ resp.op = "logout"
    /\ Len(refresh_tokens) = 2
    /\ refresh_tokens[1].replaced_by_token = refresh_tokens[2].token
    /\ refresh_tokens[1].is_revoked
    /\ refresh_tokens[2].is_revoked
    /\ refresh_tokens[2].replaced_by_token = NoToken

\* C34: soft delete is irreversible and freezes the task: a task whose
\* is_deleted flag is true is, after any step, still stored, still deleted,
\* and holds the same title, description, status, priority, due_date,
\* assigned_user_id and created_by (the whole row is the same).
C34_DeletedIsFrozen ==
    [][
        \A i \in 1..Len(tasks) :
            tasks[i].is_deleted
            => /\ i <= Len(tasks')
               /\ tasks'[i] = tasks[i]
    ]_vars

\* A bulk assignment listing a soft-deleted task, for a user who is not its
\* assignee, was refused and the task still holds its old assignee.
C34_Witness ==
    /\ resp.op = "bulk_assign_tasks" /\ resp.status = HTTP_400_BAD_REQUEST
    /\ resp.detail = "Some tasks not found"
    /\ resp.req.task_ids = <<1>>
    /\ Len(tasks) > 0
    /\ tasks[1].is_deleted
    /\ tasks[1].assigned_user_id # resp.req.user_id

\* An update of a soft-deleted task was answered 404.
C34_UpdateWitness ==
    /\ resp.op = "update_task" /\ resp.status = HTTP_404_NOT_FOUND
    /\ resp.req.task_id \in 1..Len(tasks)
    /\ tasks[resp.req.task_id].is_deleted

\* C35: no operation removes a User row or changes a user's role or
\* is_active flag, and every row that register adds has role user and is
\* active: a registered user has role user and is active in every later
\* state.
C35_RolesAndActivityFixed ==
    [][
        /\ Len(users') >= Len(users)
        /\ \A i \in 1..Len(users) :
               /\ users'[i].role = users[i].role
               /\ users'[i].is_active = users[i].is_active
        /\ \A i \in (Len(users) + 1)..Len(users') :
               users'[i].role = "user" /\ users'[i].is_active
    ]_vars

\* A visitor registered with a body naming role admin, and then updated the
\* profile with a body naming role admin: the account has role user.
C35_Witness ==
    /\ Len(users) > Len(SeedUsers)
    /\ resp.op = "update_profile" /\ resp.status = HTTP_200_OK
    /\ resp.req.role = "admin"
    /\ users[Len(SeedUsers) + 1].username = "neo"
    /\ users[Len(SeedUsers) + 1].role = "user"
    /\ users[Len(SeedUsers) + 1].is_active

\* C36: a request of a non-administrator changes no field of a task that
\* caller did not create, whether or not the caller is its assignee: every
\* step that changes a stored task is the request of an administrator or of
\* the task's creator, and no step removes a task.
C36_OnlyCreatorOrAdminWrites ==
    [][
        /\ Len(tasks') >= Len(tasks)
        /\ \A i \in 1..Len(tasks) :
               tasks'[i] # tasks[i]
               => LET me == resp'.req.credentials.sub IN
                  users[me].role = "admin" \/ tasks[i].created_by = me
    ]_vars

\* bob, the assignee of a task root created, asked to update it and was
\* refused.
C36_Witness ==
    /\ resp.op = "update_task" /\ resp.status = HTTP_403_FORBIDDEN
    /\ resp.req.credentials.sub = 2
    /\ tasks[resp.req.task_id].created_by = 1
    /\ tasks[resp.req.task_id].assigned_user_id = 2
    /\ tasks[resp.req.task_id].status = "todo"

\* bob asked for a bulk assignment of root's task and was refused.
C36_BulkWitness ==
    /\ resp.op = "bulk_assign_tasks" /\ resp.status = HTTP_403_FORBIDDEN
    /\ resp.req.credentials.sub = 2
    /\ Len(tasks) > 0
    /\ tasks[1].created_by = 1
    /\ tasks[1].assigned_user_id # 2

====
